---- MODULE Spec2Model ----
(***************************************************************************)
(* Rectangular region detectors of rxing (src/common/detector/mod.rs):     *)
(*   - WhiteRectangleDetector   (border growth + diagonal corner scans)    *)
(*   - MonochromeRectangleDetector (legacy centre-outward corner scanner)  *)
(* A binary image is fixed at start-up; a detector is constructed over it  *)
(* and detect() is called, step by step, by one or two threads.            *)
(***************************************************************************)
EXTENDS Integers, Sequences, FiniteSets, TLC

(***************************************************************************)
(* Bounds of the model                                                     *)
(***************************************************************************)
MinSide == 13          \* smallest image side of the generic image family
MaxSide == 14          \* largest image side of the generic image family
MaxInset == 1          \* largest distance of a shape's bounding box from the image edge
MaxCalls == 2          \* successive detect() calls per thread
MaxNegInitSize == 3    \* initSize passed to WhiteRectangleDetector::new is at least -MaxNegInitSize
MaxInitSize == 4       \* largest initSize passed to WhiteRectangleDetector::new
LargeWidth == 512      \* width of the large image: the horizontal legacy step is 2
LargeHeight == 768     \* height of the large image: the vertical legacy step is 3

(***************************************************************************)
(* Program constants                                                       *)
(***************************************************************************)
INIT_SIZE == 10
CORR == 1
MAX_MODULES == 32

(***************************************************************************)
(* Integer helpers                                                         *)
(***************************************************************************)
\* Rust i32 division by a positive divisor truncates toward zero
TruncDiv(a, b) == IF a >= 0 THEN a \div b ELSE -((-a) \div b)

Abs(a) == IF a < 0 THEN -a ELSE a

Max(a, b) == IF a >= b THEN a ELSE b

SetMin(S) == CHOOSE m \in S : \A n \in S : m <= n

(***************************************************************************)
(* The binary image: a descriptor [w, h, kind, x0, y0, x1, y1]; the pixel  *)
(* grid it denotes is given by Get.                                        *)
(***************************************************************************)
Kinds == {"none", "rect", "frame", "diamond", "slash", "backslash", "cross"}

\* two sides of a box that meet in one of its corners
CornerKinds == {"cornerSW", "cornerNW", "cornerSE", "cornerNE"}

\* is pixel (x, y) inside the bounding box of the shape
InBox(img, x, y) == img.x0 <= x /\ x <= img.x1 /\ img.y0 <= y /\ img.y1 >= y

\* pixel (x, y) belongs to the foreground shape drawn in the image
Shape(img, x, y) ==
    LET bw == img.x1 - img.x0
        bh == img.y1 - img.y0
    IN  CASE img.kind = "none" -> FALSE
          [] img.kind = "rect" -> InBox(img, x, y)
          [] img.kind = "frame" ->
                /\ InBox(img, x, y)
                /\ (x = img.x0 \/ x = img.x1 \/ y = img.y0 \/ y = img.y1)
          [] img.kind = "diamond" ->
                /\ InBox(img, x, y)
                /\ Abs(2 * x - (img.x0 + img.x1)) * bh
                     + Abs(2 * y - (img.y0 + img.y1)) * bw <= bw * bh
          [] img.kind = "slash" ->
                InBox(img, x, y) /\ Abs((x - img.x0) - (img.y1 - y)) <= 1
          [] img.kind = "backslash" ->
                InBox(img, x, y) /\ Abs((x - img.x0) - (y - img.y0)) <= 1
          [] img.kind = "cross" ->
                /\ InBox(img, x, y)
                /\ (Abs(2 * x - (img.x0 + img.x1)) <= 2
                      \/ Abs(2 * y - (img.y0 + img.y1)) <= 2)
          [] img.kind = "cornerSW" -> InBox(img, x, y) /\ (x = img.x0 \/ y = img.y1)
          [] img.kind = "cornerNW" -> InBox(img, x, y) /\ (x = img.x0 \/ y = img.y0)
          [] img.kind = "cornerSE" -> InBox(img, x, y) /\ (x = img.x1 \/ y = img.y1)
          [] img.kind = "cornerNE" -> InBox(img, x, y) /\ (x = img.x1 \/ y = img.y0)

\* (x, y) is a pixel of the image
InImage(img, x, y) == 0 <= x /\ x < img.w /\ 0 <= y /\ y < img.h

\* BitMatrix::get for a pixel of the image
Get(img, x, y) == InImage(img, x, y) /\ Shape(img, x, y)

\* the 20x20 image with a 10x10 square on rows and columns 5..14
Scenario ==
    [w |-> 20, h |-> 20, kind |-> "rect", x0 |-> 5, y0 |-> 5, x1 |-> 14, y1 |-> 14]

\* the 20x20 image with a 12x12 square on rows and columns 4..15
ScenarioWide ==
    [w |-> 20, h |-> 20, kind |-> "rect", x0 |-> 4, y0 |-> 4, x1 |-> 15, y1 |-> 15]

\* shapes whose bounding box is within MaxInset of each image edge
EdgeImages ==
    { [w |-> w, h |-> h, kind |-> k, x0 |-> a, y0 |-> b, x1 |-> w - 1 - c, y1 |-> h - 1 - d] :
        w \in MinSide..MaxSide, h \in MinSide..MaxSide, k \in Kinds \ {"none"},
        a \in 0..MaxInset, b \in 0..MaxInset, c \in 0..MaxInset, d \in 0..MaxInset }

\* images without any foreground pixel
BlankImages ==
    { [w |-> w, h |-> h, kind |-> "none", x0 |-> 0, y0 |-> 0, x1 |-> 0, y1 |-> 0] :
        w \in MinSide..MaxSide, h \in MinSide..MaxSide }

\* images whose foreground is one pixel wide: part of one column, or of one row
LineImages ==
    UNION { { [w |-> w, h |-> h, kind |-> "rect",
               x0 |-> c, y0 |-> a, x1 |-> c, y1 |-> h - 1 - b] : c \in 0..(w - 1) }
            \cup
            { [w |-> w, h |-> h, kind |-> "rect",
               x0 |-> a, y0 |-> c, x1 |-> w - 1 - b, y1 |-> c] : c \in 0..(h - 1) } :
            w \in MinSide..MaxSide, h \in MinSide..MaxSide,
            a \in 0..MaxInset, b \in 0..MaxInset }

\* small corners and small squares around the centre of the image
CornerImages ==
    UNION { { [w |-> w, h |-> h, kind |-> k, x0 |-> a, y0 |-> b,
               x1 |-> a + 1 + e, y1 |-> b + 1 + e] :
                a \in (TruncDiv(w, 2) - 1)..TruncDiv(w, 2),
                b \in (TruncDiv(h, 2) - 1)..TruncDiv(h, 2) } :
            w \in MinSide..MaxSide, h \in MinSide..MaxSide,
            k \in CornerKinds \cup {"rect"}, e \in 0..MaxInset }

\* an image large enough for the legacy search steps to exceed one pixel, with
\* a 41x41 square around its centre
LargeImage ==
    [w |-> LargeWidth, h |-> LargeHeight, kind |-> "rect",
     x0 |-> TruncDiv(LargeWidth, 2) - 20, y0 |-> TruncDiv(LargeHeight, 2) - 20,
     x1 |-> TruncDiv(LargeWidth, 2) + 20, y1 |-> TruncDiv(LargeHeight, 2) + 20]

\* hollow squares around the centre of the image, with a hole of 3 pixels or more
RingImages ==
    { [w |-> w, h |-> h, kind |-> "frame",
       x0 |-> TruncDiv(w, 2) - r, y0 |-> TruncDiv(h, 2) - r,
       x1 |-> TruncDiv(w, 2) + r, y1 |-> TruncDiv(h, 2) + r] :
        w \in MinSide..MaxSide, h \in MinSide..MaxSide, r \in 2..(2 + MaxInset) }

Images ==
    EdgeImages \cup BlankImages \cup LineImages \cup CornerImages \cup RingImages
        \cup {Scenario, ScenarioWide, LargeImage}

\* the images of the two-thread specification: the square ones
SquareImages == { img \in Images : img.w = img.h }

(***************************************************************************)
(* State                                                                   *)
(***************************************************************************)
VARIABLES
    image,      \* the BitMatrix both detectors read
    det,        \* the detector instance (fields of the struct) or its construction error
    calls,      \* per thread: the locals of a running WhiteRectangleDetector::detect
    mono,       \* the locals of a running MonochromeRectangleDetector::detect
    results,    \* per thread: the results detect() has returned so far, in order
    oned        \* the MultiFormatOneDReader: its reader list and the locals of its running call

vars == <<image, det, calls, mono, results, oned>>

Threads == {1, 2}

None == <<>>

NotFound == [ok |-> FALSE, err |-> "NotFoundException"]

\* index out of bounds in BitMatrix::get
Panic == [ok |-> FALSE, err |-> "panic"]

Found(pts) == [ok |-> TRUE, pts |-> pts]

(***************************************************************************)
(* WhiteRectangleDetector                                                  *)
(***************************************************************************)
\* a plausible slip: the half size is computed from initSize - 1
NewFieldsSmallerHalf(img, initSize, x, y) ==
    LET halfsize == TruncDiv(initSize - 1, 2)
    IN  [kind |-> "white", width |-> img.w, height |-> img.h,
         leftInit |-> x - halfsize, rightInit |-> x + halfsize,
         upInit |-> y - halfsize, downInit |-> y + halfsize]

\* WhiteRectangleDetector::new: the struct it builds, before the bounds test
NewFields(img, initSize, x, y) ==
    LET halfsize == TruncDiv(initSize, 2)
    IN  [kind |-> "white", width |-> img.w, height |-> img.h,
         leftInit |-> x - halfsize, rightInit |-> x + halfsize,
         upInit |-> y - halfsize, downInit |-> y + halfsize]

\* a plausible slip: the test of the right bound is missing
NewRejectsNoRight(d) ==
    d.upInit < 0 \/ d.leftInit < 0 \/ d.downInit >= d.height

\* the bounds test of WhiteRectangleDetector::new
NewRejects(d) ==
    d.upInit < 0 \/ d.leftInit < 0 \/ d.downInit >= d.height \/ d.rightInit >= d.width

NewResult(img, initSize, x, y) ==
    LET d == NewFields(img, initSize, x, y)
    IN  IF NewRejects(d)
        THEN [kind |-> "error", err |-> "NotFoundException",
              initSize |-> initSize, x |-> x, y |-> y]
        ELSE d @@ [initSize |-> initSize, x |-> x, y |-> y]

\* containsBlackPoint(a, b, fixed, horizontal)
containsBlackPoint(img, a, b, fixed, horizontal) ==
    IF horizontal
    THEN \E x \in a..b : Get(img, x, fixed)
    ELSE \E y \in a..b : Get(img, fixed, y)

\* the pixels containsBlackPoint(a, b, fixed, horizontal) may read
ProbesOfLine(a, b, fixed, horizontal) ==
    IF horizontal THEN {<<x, fixed>> : x \in a..b} ELSE {<<fixed, y>> : y \in a..b}

\* the locals of detect() before the first call and between calls
IdleCall ==
    [pc |-> "idle", left |-> 0, right |-> 0, up |-> 0, down |-> 0,
     sizeExceeded |-> FALSE, aBlackPointFoundOnBorder |-> FALSE,
     atLeastOneBlackPointFoundOnRight |-> FALSE,
     atLeastOneBlackPointFoundOnBottom |-> FALSE,
     atLeastOneBlackPointFoundOnLeft |-> FALSE,
     atLeastOneBlackPointFoundOnTop |-> FALSE,
     borderNotWhite |-> FALSE, i |-> 0,
     z |-> None, t |-> None, x |-> None, y |-> None,
     \* history: the bounds when the current pass of the outer loop began
     passStart |-> <<0, 0, 0, 0>>]

\* a plausible slip: the four atLeastOneBlackPointFound flags start out true
StartCallFlagsSet(d) ==
    [IdleCall EXCEPT !.pc = "outer",
        !.left = d.leftInit, !.right = d.rightInit,
        !.up = d.upInit, !.down = d.downInit,
        !.sizeExceeded = FALSE, !.aBlackPointFoundOnBorder = TRUE,
        !.atLeastOneBlackPointFoundOnRight = TRUE,
        !.atLeastOneBlackPointFoundOnBottom = TRUE,
        !.atLeastOneBlackPointFoundOnLeft = TRUE,
        !.atLeastOneBlackPointFoundOnTop = TRUE]

\* detect(), lines 407-417: the locals at the start of a call
StartCall(d) ==
    [IdleCall EXCEPT !.pc = "outer",
        !.left = d.leftInit, !.right = d.rightInit,
        !.up = d.upInit, !.down = d.downInit,
        !.sizeExceeded = FALSE, !.aBlackPointFoundOnBorder = TRUE]

\* a plausible slip: the right border is taken to have left the image one column early
GrowRightEarlyExit(img, d, c) ==
    IF (c.borderNotWhite \/ ~c.atLeastOneBlackPointFoundOnRight) /\ c.right < d.width - 1
    THEN LET rightBorderNotWhite == containsBlackPoint(img, c.up, c.down, c.right, FALSE)
         IN  IF rightBorderNotWhite
             THEN [c EXCEPT !.borderNotWhite = TRUE, !.right = @ + 1,
                            !.aBlackPointFoundOnBorder = TRUE,
                            !.atLeastOneBlackPointFoundOnRight = TRUE]
             ELSE IF ~c.atLeastOneBlackPointFoundOnRight
             THEN [c EXCEPT !.borderNotWhite = FALSE, !.right = @ + 1]
             ELSE [c EXCEPT !.borderNotWhite = FALSE]
    ELSE IF c.right >= d.width - 1
    THEN [c EXCEPT !.sizeExceeded = TRUE, !.pc = "after"]
    ELSE [c EXCEPT !.borderNotWhite = TRUE, !.pc = "bottom"]

\* a plausible slip: the loop guard lacks "|| !atLeastOneBlackPointFoundOnRight"
GrowRightNoMargin(img, d, c) ==
    IF c.borderNotWhite /\ c.right < d.width
    THEN LET rightBorderNotWhite == containsBlackPoint(img, c.up, c.down, c.right, FALSE)
         IN  IF rightBorderNotWhite
             THEN [c EXCEPT !.borderNotWhite = TRUE, !.right = @ + 1,
                            !.aBlackPointFoundOnBorder = TRUE,
                            !.atLeastOneBlackPointFoundOnRight = TRUE]
             ELSE IF ~c.atLeastOneBlackPointFoundOnRight
             THEN [c EXCEPT !.borderNotWhite = FALSE, !.right = @ + 1]
             ELSE [c EXCEPT !.borderNotWhite = FALSE]
    ELSE IF c.right >= d.width
    THEN [c EXCEPT !.sizeExceeded = TRUE, !.pc = "after"]
    ELSE [c EXCEPT !.borderNotWhite = TRUE, !.pc = "bottom"]

\* one iteration, or the exit, of the right-border loop (lines 425-441)
GrowRight(img, d, c) ==
    IF (c.borderNotWhite \/ ~c.atLeastOneBlackPointFoundOnRight) /\ c.right < d.width
    THEN LET rightBorderNotWhite == containsBlackPoint(img, c.up, c.down, c.right, FALSE)
         IN  IF rightBorderNotWhite
             THEN [c EXCEPT !.borderNotWhite = TRUE, !.right = @ + 1,
                            !.aBlackPointFoundOnBorder = TRUE,
                            !.atLeastOneBlackPointFoundOnRight = TRUE]
             ELSE IF ~c.atLeastOneBlackPointFoundOnRight
             THEN [c EXCEPT !.borderNotWhite = FALSE, !.right = @ + 1]
             ELSE [c EXCEPT !.borderNotWhite = FALSE]
    ELSE IF c.right >= d.width
    THEN [c EXCEPT !.sizeExceeded = TRUE, !.pc = "after"]
    ELSE [c EXCEPT !.borderNotWhite = TRUE, !.pc = "bottom"]

\* a plausible slip: <= instead of < in the guard of the bottom-border loop
GrowBottomPastEdge(img, d, c) ==
    IF (c.borderNotWhite \/ ~c.atLeastOneBlackPointFoundOnBottom) /\ c.down <= d.height
    THEN LET bottomBorderNotWhite == containsBlackPoint(img, c.left, c.right, c.down, TRUE)
         IN  IF bottomBorderNotWhite
             THEN [c EXCEPT !.borderNotWhite = TRUE, !.down = @ + 1,
                            !.aBlackPointFoundOnBorder = TRUE,
                            !.atLeastOneBlackPointFoundOnBottom = TRUE]
             ELSE IF ~c.atLeastOneBlackPointFoundOnBottom
             THEN [c EXCEPT !.borderNotWhite = FALSE, !.down = @ + 1]
             ELSE [c EXCEPT !.borderNotWhite = FALSE]
    ELSE IF c.down >= d.height
    THEN [c EXCEPT !.sizeExceeded = TRUE, !.pc = "after"]
    ELSE [c EXCEPT !.borderNotWhite = TRUE, !.pc = "left"]

\* one iteration, or the exit, of the bottom-border loop (lines 446-463)
GrowBottom(img, d, c) ==
    IF (c.borderNotWhite \/ ~c.atLeastOneBlackPointFoundOnBottom) /\ c.down < d.height
    THEN LET bottomBorderNotWhite == containsBlackPoint(img, c.left, c.right, c.down, TRUE)
         IN  IF bottomBorderNotWhite
             THEN [c EXCEPT !.borderNotWhite = TRUE, !.down = @ + 1,
                            !.aBlackPointFoundOnBorder = TRUE,
                            !.atLeastOneBlackPointFoundOnBottom = TRUE]
             ELSE IF ~c.atLeastOneBlackPointFoundOnBottom
             THEN [c EXCEPT !.borderNotWhite = FALSE, !.down = @ + 1]
             ELSE [c EXCEPT !.borderNotWhite = FALSE]
    ELSE IF c.down >= d.height
    THEN [c EXCEPT !.sizeExceeded = TRUE, !.pc = "after"]
    ELSE [c EXCEPT !.borderNotWhite = TRUE, !.pc = "left"]

\* a plausible slip: the test of lines 480-483 after the left-border loop is missing
GrowLeftNoEdgeTest(img, d, c) ==
    IF (c.borderNotWhite \/ ~c.atLeastOneBlackPointFoundOnLeft) /\ c.left >= 0
    THEN LET leftBorderNotWhite == containsBlackPoint(img, c.up, c.down, c.left, FALSE)
         IN  IF leftBorderNotWhite
             THEN [c EXCEPT !.borderNotWhite = TRUE, !.left = @ - 1,
                            !.aBlackPointFoundOnBorder = TRUE,
                            !.atLeastOneBlackPointFoundOnLeft = TRUE]
             ELSE IF ~c.atLeastOneBlackPointFoundOnLeft
             THEN [c EXCEPT !.borderNotWhite = FALSE, !.left = @ - 1]
             ELSE [c EXCEPT !.borderNotWhite = FALSE]
    ELSE [c EXCEPT !.borderNotWhite = TRUE, !.pc = "top"]

\* one iteration, or the exit, of the left-border loop (lines 468-483)
GrowLeft(img, d, c) ==
    IF (c.borderNotWhite \/ ~c.atLeastOneBlackPointFoundOnLeft) /\ c.left >= 0
    THEN LET leftBorderNotWhite == containsBlackPoint(img, c.up, c.down, c.left, FALSE)
         IN  IF leftBorderNotWhite
             THEN [c EXCEPT !.borderNotWhite = TRUE, !.left = @ - 1,
                            !.aBlackPointFoundOnBorder = TRUE,
                            !.atLeastOneBlackPointFoundOnLeft = TRUE]
             ELSE IF ~c.atLeastOneBlackPointFoundOnLeft
             THEN [c EXCEPT !.borderNotWhite = FALSE, !.left = @ - 1]
             ELSE [c EXCEPT !.borderNotWhite = FALSE]
    ELSE IF c.left < 0
    THEN [c EXCEPT !.sizeExceeded = TRUE, !.pc = "after"]
    ELSE [c EXCEPT !.borderNotWhite = TRUE, !.pc = "top"]

\* a plausible slip: the four border loops run once, the outer loop is not repeated
GrowTopNoRepeat(img, d, c) ==
    IF (c.borderNotWhite \/ ~c.atLeastOneBlackPointFoundOnTop) /\ c.up >= 0
    THEN LET topBorderNotWhite == containsBlackPoint(img, c.left, c.right, c.up, TRUE)
         IN  IF topBorderNotWhite
             THEN [c EXCEPT !.borderNotWhite = TRUE, !.up = @ - 1,
                            !.aBlackPointFoundOnBorder = TRUE,
                            !.atLeastOneBlackPointFoundOnTop = TRUE]
             ELSE IF ~c.atLeastOneBlackPointFoundOnTop
             THEN [c EXCEPT !.borderNotWhite = FALSE, !.up = @ - 1]
             ELSE [c EXCEPT !.borderNotWhite = FALSE]
    ELSE IF c.up < 0
    THEN [c EXCEPT !.sizeExceeded = TRUE, !.pc = "after"]
    ELSE [c EXCEPT !.pc = "after"]

\* one iteration, or the exit, of the top-border loop (lines 488-503)
GrowTop(img, d, c) ==
    IF (c.borderNotWhite \/ ~c.atLeastOneBlackPointFoundOnTop) /\ c.up >= 0
    THEN LET topBorderNotWhite == containsBlackPoint(img, c.left, c.right, c.up, TRUE)
         IN  IF topBorderNotWhite
             THEN [c EXCEPT !.borderNotWhite = TRUE, !.up = @ - 1,
                            !.aBlackPointFoundOnBorder = TRUE,
                            !.atLeastOneBlackPointFoundOnTop = TRUE]
             ELSE IF ~c.atLeastOneBlackPointFoundOnTop
             THEN [c EXCEPT !.borderNotWhite = FALSE, !.up = @ - 1]
             ELSE [c EXCEPT !.borderNotWhite = FALSE]
    ELSE IF c.up < 0
    THEN [c EXCEPT !.sizeExceeded = TRUE, !.pc = "after"]
    ELSE [c EXCEPT !.pc = "outer"]

\* a plausible slip: aBlackPointFoundOnBorder is not cleared at the head of the loop
OuterHeadNoReset(c) ==
    IF c.aBlackPointFoundOnBorder
    THEN [c EXCEPT !.borderNotWhite = TRUE,
                   !.pc = "right",
                   !.passStart = <<c.left, c.right, c.up, c.down>>]
    ELSE [c EXCEPT !.pc = "after"]

\* the head of the outer loop (lines 419-425)
OuterHead(c) ==
    IF c.aBlackPointFoundOnBorder
    THEN [c EXCEPT !.aBlackPointFoundOnBorder = FALSE, !.borderNotWhite = TRUE,
                   !.pc = "right",
                   !.passStart = <<c.left, c.right, c.up, c.down>>]
    ELSE [c EXCEPT !.pc = "after"]

\* MathUtils::round: nearest integer to (a * den + num) / den, halves away from zero
Round(a, num, den) ==
    LET v == a * den + num
    IN  IF v >= 0 THEN (2 * v + den) \div (2 * den)
        ELSE -((2 * (-v) + den) \div (2 * den))

\* MathUtils::round(MathUtils::distance_float(aX, aY, bX, bY))
RoundDistance(aX, aY, bX, bY) ==
    LET n == (bX - aX) * (bX - aX) + (bY - aY) * (bY - aY)
    IN  CHOOSE dist \in 0..(2 * (Abs(bX - aX) + Abs(bY - aY)) + 1) :
            /\ (2 * dist - 1) * (2 * dist - 1) <= 4 * n \/ dist = 0
            /\ 4 * n < (2 * dist + 1) * (2 * dist + 1)

\* the i-th pixel getBlackPointOnSegment reads (lines 577-579); the distance is
\* bound as a value, so that it is computed once
SegmentPoint(aX, aY, bX, bY, i) ==
    CHOOSE p \in { <<Round(aX, i * (bX - aX), dist), Round(aY, i * (bY - aY), dist)>> :
                      dist \in {RoundDistance(aX, aY, bX, bY)} } : TRUE

\* the indices at which the loop of getBlackPointOnSegment stops: a foreground
\* pixel, or a pixel outside the image
SegmentStops(img, aX, aY, bX, bY) ==
    { i \in 0..(RoundDistance(aX, aY, bX, bY) - 1) :
        \E p \in {SegmentPoint(aX, aY, bX, bY, i)} :
            ~InImage(img, p[1], p[2]) \/ Get(img, p[1], p[2]) }

\* getBlackPointOnSegment reads a pixel outside the image before it finds foreground
SegmentPanics(img, aX, aY, bX, bY) ==
    \E stops \in {SegmentStops(img, aX, aY, bX, bY)} :
        /\ stops # {}
        /\ \E p \in {SegmentPoint(aX, aY, bX, bY, SetMin(stops))} :
              ~InImage(img, p[1], p[2])

\* getBlackPointOnSegment (lines 566-585): the first foreground pixel, or None
getBlackPointOnSegment(img, aX, aY, bX, bY) ==
    CHOOSE p \in { IF stops = {} THEN None
                    ELSE SegmentPoint(aX, aY, bX, bY, SetMin(stops)) :
                      stops \in {SegmentStops(img, aX, aY, bX, bY)} } : TRUE

\* the pixels getBlackPointOnSegment reads
ProbesOfSegment(img, aX, aY, bX, bY) ==
    LET stops == SegmentStops(img, aX, aY, bX, bY)
        last == IF stops = {} THEN RoundDistance(aX, aY, bX, bY) - 1 ELSE SetMin(stops)
    IN  { SegmentPoint(aX, aY, bX, bY, i) : i \in 0..last }

\* a plausible slip: the midline is width / 2 in integer arithmetic
centerEdgesIntegerMidline(d, y, z, x, t) ==
    LET yi == y[1]
        yj == y[2]
        zi == z[1]
        zj == z[2]
        xi == x[1]
        xj == x[2]
        ti == t[1]
        tj == t[2]
    IN  IF yi < TruncDiv(d.width, 2)
        THEN << <<ti - CORR, tj + CORR>>, <<zi + CORR, zj + CORR>>,
                <<xi - CORR, xj - CORR>>, <<yi + CORR, yj - CORR>> >>
        ELSE << <<ti + CORR, tj + CORR>>, <<zi + CORR, zj - CORR>>,
                <<xi - CORR, xj + CORR>>, <<yi - CORR, yj - CORR>> >>

\* a plausible slip: every offset has the opposite sign
centerEdgesOutward(d, y, z, x, t) ==
    LET yi == y[1]
        yj == y[2]
        zi == z[1]
        zj == z[2]
        xi == x[1]
        xj == x[2]
        ti == t[1]
        tj == t[2]
    IN  IF 2 * yi < d.width
        THEN << <<ti + CORR, tj - CORR>>, <<zi - CORR, zj - CORR>>,
                <<xi + CORR, xj + CORR>>, <<yi - CORR, yj + CORR>> >>
        ELSE << <<ti - CORR, tj - CORR>>, <<zi - CORR, zj + CORR>>,
                <<xi + CORR, xj - CORR>>, <<yi + CORR, yj + CORR>> >>

\* centerEdges (lines 600-638)
centerEdges(d, y, z, x, t) ==
    LET yi == y[1]
        yj == y[2]
        zi == z[1]
        zj == z[2]
        xi == x[1]
        xj == x[2]
        ti == t[1]
        tj == t[2]
    IN  IF 2 * yi < d.width
        THEN << <<ti - CORR, tj + CORR>>, <<zi + CORR, zj + CORR>>,
                <<xi - CORR, xj - CORR>>, <<yi + CORR, yj - CORR>> >>
        ELSE << <<ti + CORR, tj + CORR>>, <<zi + CORR, zj - CORR>>,
                <<xi - CORR, xj + CORR>>, <<yi - CORR, yj - CORR>> >>

\* a plausible slip: the top-left scan starts above the window instead of inside it
ScanSegmentAboveWindow(c, which) ==
    CASE which = "z" -> <<c.left, c.down - c.i, c.left + c.i, c.down>>
      [] which = "t" -> <<c.left, c.up - c.i, c.left + c.i, c.up>>
      [] which = "x" -> <<c.right, c.up + c.i, c.right - c.i, c.up>>
      [] which = "y" -> <<c.right, c.down - c.i, c.right - c.i, c.down>>

\* the segment the i-th attempt of each corner scan rasterises (lines 513, 526, 539, 552)
ScanSegment(c, which) ==
    CASE which = "z" -> <<c.left, c.down - c.i, c.left + c.i, c.down>>
      [] which = "t" -> <<c.left, c.up + c.i, c.left + c.i, c.up>>
      [] which = "x" -> <<c.right, c.up + c.i, c.right - c.i, c.up>>
      [] which = "y" -> <<c.right, c.down - c.i, c.right - c.i, c.down>>

\* WhiteRectangleDetector::new_from_image (lines 350-357)
new_from_image(img) ==
    NewResult(img, INIT_SIZE, TruncDiv(img.w, 2), TruncDiv(img.h, 2))

\* the search centres passed to WhiteRectangleDetector::new
Centers(img) ==
    LET cx == TruncDiv(img.w, 2)
        cy == TruncDiv(img.h, 2)
    IN  { <<cx, cy>>, <<cx - 2, cy + 1>>, <<0, cy>>, <<cx, img.h - 1>>, <<img.w, cy>> }

(***************************************************************************)
(* Actions of WhiteRectangleDetector                                       *)
(***************************************************************************)
\* detect() returns r on thread th: its locals are dropped
Return(th, r) ==
    /\ results' = [results EXCEPT ![th] = Append(@, r)]
    /\ calls' = [calls EXCEPT ![th] = IdleCall]

Construct ==
    /\ det.kind = "none"
    /\ \E initSize \in (-MaxNegInitSize)..MaxInitSize, c \in Centers(image) :
          det' = NewResult(image, initSize, c[1], c[2])
    /\ UNCHANGED <<oned, image, calls, mono, results>>

ConstructFromImage ==
    /\ det.kind = "none"
    /\ det' = new_from_image(image)
    /\ UNCHANGED <<oned, image, calls, mono, results>>

Start(th) ==
    /\ det.kind = "white"
    /\ calls[th].pc = "idle"
    /\ Len(results[th]) < MaxCalls
    /\ calls' = [calls EXCEPT ![th] = StartCall(det)]
    /\ UNCHANGED <<oned, image, det, mono, results>>

Outer(th) ==
    /\ calls[th].pc = "outer"
    /\ calls' = [calls EXCEPT ![th] = OuterHead(@)]
    /\ UNCHANGED <<oned, image, det, mono, results>>

\* a plausible slip: the right bound is kept in the detector instead of a local
RightShared(th) ==
    /\ calls[th].pc = "right"
    /\ calls' = [calls EXCEPT ![th] = GrowRight(image, det, @)]
    /\ det' = [det EXCEPT !.rightInit = calls'[th].right]
    /\ UNCHANGED <<oned, image, mono, results>>

Right(th) ==
    /\ calls[th].pc = "right"
    /\ calls' = [calls EXCEPT ![th] = GrowRight(image, det, @)]
    /\ UNCHANGED <<oned, image, det, mono, results>>

\* a plausible slip: the bottom bound is kept in the detector instead of a local
BottomShared(th) ==
    /\ calls[th].pc = "bottom"
    /\ calls' = [calls EXCEPT ![th] = GrowBottom(image, det, @)]
    /\ det' = [det EXCEPT !.downInit = calls'[th].down]
    /\ UNCHANGED <<oned, image, mono, results>>

Bottom(th) ==
    /\ calls[th].pc = "bottom"
    /\ calls' = [calls EXCEPT ![th] = GrowBottom(image, det, @)]
    /\ UNCHANGED <<oned, image, det, mono, results>>

\* a plausible slip: the left bound is kept in the detector instead of a local
LeftShared(th) ==
    /\ calls[th].pc = "left"
    /\ calls' = [calls EXCEPT ![th] = GrowLeft(image, det, @)]
    /\ det' = [det EXCEPT !.leftInit = calls'[th].left]
    /\ UNCHANGED <<oned, image, mono, results>>

Left(th) ==
    /\ calls[th].pc = "left"
    /\ calls' = [calls EXCEPT ![th] = GrowLeft(image, det, @)]
    /\ UNCHANGED <<oned, image, det, mono, results>>

Top(th) ==
    /\ calls[th].pc = "top"
    /\ calls' = [calls EXCEPT ![th] = GrowTop(image, det, @)]
    /\ UNCHANGED <<oned, image, det, mono, results>>

\* a plausible slip: the corner scans are not guarded by "if !sizeExceeded"
AfterUnguarded(th) ==
    /\ calls[th].pc = "after"
    /\ calls' = [calls EXCEPT ![th].pc = "z", ![th].i = 1]
    /\ UNCHANGED results
    /\ UNCHANGED <<oned, image, det, mono>>

\* lines 506-510 and 561-563: after the border loops
After(th) ==
    /\ calls[th].pc = "after"
    /\ IF ~calls[th].sizeExceeded
       THEN /\ calls' = [calls EXCEPT ![th].pc = "z", ![th].i = 1]
            /\ UNCHANGED results
       ELSE Return(th, NotFound)
    /\ UNCHANGED <<oned, image, det, mono>>

\* a plausible slip: the is_none() test after a corner-scan loop is missing, so
\* that a miss is only met by unwrap() at line 560
ScanNoMissTest(th, which, next) ==
    LET c == calls[th]
        maxSize == c.right - c.left
        s == ScanSegment(c, which)
    IN  /\ c.pc = which
        /\ IF c[which] = None /\ c.i < maxSize
           THEN IF SegmentPanics(image, s[1], s[2], s[3], s[4])
                THEN Return(th, Panic)
                ELSE /\ calls' = [calls EXCEPT ![th][which] =
                                     getBlackPointOnSegment(image, s[1], s[2], s[3], s[4]),
                                   ![th].i = @ + 1]
                     /\ UNCHANGED results
           ELSE IF next = "return"
           THEN IF None \in {c.y, c.z, c.x, c.t}
                THEN Return(th, Panic)
                ELSE Return(th, Found(centerEdges(det, c.y, c.z, c.x, c.t)))
           ELSE /\ calls' = [calls EXCEPT ![th].pc = next, ![th].i = 1]
                /\ UNCHANGED results
        /\ UNCHANGED <<oned, image, det, mono>>

\* one attempt, or the exit, of a corner-scan loop (lines 509-558), and the
\* return of detect() after the last one (line 560)
Scan(th, which, next) ==
    LET c == calls[th]
        maxSize == c.right - c.left
        s == ScanSegment(c, which)
    IN  /\ c.pc = which
        /\ IF c[which] = None /\ c.i < maxSize
           THEN IF SegmentPanics(image, s[1], s[2], s[3], s[4])
                THEN Return(th, Panic)
                ELSE /\ calls' = [calls EXCEPT ![th][which] =
                                     getBlackPointOnSegment(image, s[1], s[2], s[3], s[4]),
                                   ![th].i = @ + 1]
                     /\ UNCHANGED results
           ELSE IF c[which] = None
           THEN Return(th, NotFound)
           ELSE IF next = "return"
           THEN Return(th, Found(centerEdges(det, c.y, c.z, c.x, c.t)))
           ELSE /\ calls' = [calls EXCEPT ![th].pc = next, ![th].i = 1]
                /\ UNCHANGED results
        /\ UNCHANGED <<oned, image, det, mono>>

ScanZ(th) == Scan(th, "z", "t")

ScanT(th) == Scan(th, "t", "x")

ScanX(th) == Scan(th, "x", "y")

ScanY(th) == Scan(th, "y", "return")

WhiteStep(th) ==
    \/ Start(th)
    \/ Outer(th)
    \/ Right(th)
    \/ Bottom(th)
    \/ Left(th)
    \/ Top(th)
    \/ After(th)
    \/ ScanZ(th)
    \/ ScanT(th)
    \/ ScanX(th)
    \/ ScanY(th)

(***************************************************************************)
(* MonochromeRectangleDetector                                             *)
(***************************************************************************)
\* the pixel a scan along one line reads at position pos
LinePixel(img, fixedDimension, pos, horizontal) ==
    IF horizontal THEN Get(img, pos, fixedDimension) ELSE Get(img, fixedDimension, pos)

\* blackWhiteRange, lines 236-264: the value of start after the first loop
RECURSIVE ScanTowardMin(_, _, _, _, _, _)
ScanTowardMin(img, fixedDimension, maxWhiteRun, minDim, horizontal, start) ==
    IF start < minDim THEN start
    ELSE IF LinePixel(img, fixedDimension, start, horizontal)
    THEN ScanTowardMin(img, fixedDimension, maxWhiteRun, minDim, horizontal, start - 1)
    ELSE LET whiteRunStart == start
             blacks == { j \in minDim..(start - 1) :
                            LinePixel(img, fixedDimension, j, horizontal) }
             after == IF blacks = {} THEN minDim - 1
                      ELSE CHOOSE j \in blacks : \A k \in blacks : k <= j
             whiteRunSize == whiteRunStart - after
         IN  IF after < minDim \/ whiteRunSize > maxWhiteRun
             THEN whiteRunStart
             ELSE ScanTowardMin(img, fixedDimension, maxWhiteRun, minDim, horizontal, after)

\* blackWhiteRange, lines 266-294: the value of end after the second loop
RECURSIVE ScanTowardMax(_, _, _, _, _, _)
ScanTowardMax(img, fixedDimension, maxWhiteRun, maxDim, horizontal, end) ==
    IF end >= maxDim THEN end
    ELSE IF LinePixel(img, fixedDimension, end, horizontal)
    THEN ScanTowardMax(img, fixedDimension, maxWhiteRun, maxDim, horizontal, end + 1)
    ELSE LET whiteRunStart == end
             blacks == { j \in (end + 1)..(maxDim - 1) :
                            LinePixel(img, fixedDimension, j, horizontal) }
             after == IF blacks = {} THEN maxDim
                      ELSE CHOOSE j \in blacks : \A k \in blacks : j <= k
             whiteRunSize == after - whiteRunStart
         IN  IF after >= maxDim \/ whiteRunSize > maxWhiteRun
             THEN whiteRunStart
             ELSE ScanTowardMax(img, fixedDimension, maxWhiteRun, maxDim, horizontal, after)

\* blackWhiteRange (lines 226-301): <<start, end>> or None
blackWhiteRange(img, fixedDimension, maxWhiteRun, minDim, maxDim, horizontal) ==
    LET center == TruncDiv(minDim + maxDim, 2)
        start == ScanTowardMin(img, fixedDimension, maxWhiteRun, minDim, horizontal, center) + 1
        end == ScanTowardMax(img, fixedDimension, maxWhiteRun, maxDim, horizontal, center) - 1
    IN  IF end > start THEN <<start, end>> ELSE None

\* a plausible slip: the tests of the scan direction are exchanged
CornerOfSwapped(lastRange, x, y, centerX, deltaX, centerY, deltaY) ==
    IF deltaX = 0
    THEN LET lastY == y - deltaY
         IN  IF lastRange[1] < centerX
             THEN IF lastRange[2] > centerX
                  THEN <<lastRange[IF deltaY < 0 THEN 1 ELSE 2], lastY>>
                  ELSE <<lastRange[1], lastY>>
             ELSE <<lastRange[2], lastY>>
    ELSE LET lastX == x - deltaX
         IN  IF lastRange[1] < centerY
             THEN IF lastRange[2] > centerY
                  THEN <<lastX, lastRange[IF deltaX > 0 THEN 1 ELSE 2]>>
                  ELSE <<lastX, lastRange[1]>>
             ELSE <<lastX, lastRange[2]>>

\* a plausible slip: the corner is put on the current line, not on the one before
CornerOfCurrentLine(lastRange, x, y, centerX, deltaX, centerY, deltaY) ==
    IF deltaX = 0
    THEN LET lastY == y
         IN  IF lastRange[1] < centerX
             THEN IF lastRange[2] > centerX
                  THEN <<lastRange[IF deltaY > 0 THEN 1 ELSE 2], lastY>>
                  ELSE <<lastRange[1], lastY>>
             ELSE <<lastRange[2], lastY>>
    ELSE LET lastX == x
         IN  IF lastRange[1] < centerY
             THEN IF lastRange[2] > centerY
                  THEN <<lastX, lastRange[IF deltaX < 0 THEN 1 ELSE 2]>>
                  ELSE <<lastX, lastRange[1]>>
             ELSE <<lastX, lastRange[2]>>

\* the corner findCornerFromCenter returns once a scan line has no range (lines 176-203)
CornerOf(lastRange, x, y, centerX, deltaX, centerY, deltaY) ==
    IF deltaX = 0
    THEN LET lastY == y - deltaY
         IN  IF lastRange[1] < centerX
             THEN IF lastRange[2] > centerX
                  THEN <<lastRange[IF deltaY > 0 THEN 1 ELSE 2], lastY>>
                  ELSE <<lastRange[1], lastY>>
             ELSE <<lastRange[2], lastY>>
    ELSE LET lastX == x - deltaX
         IN  IF lastRange[1] < centerY
             THEN IF lastRange[2] > centerY
                  THEN <<lastX, lastRange[IF deltaX < 0 THEN 1 ELSE 2]>>
                  ELSE <<lastX, lastRange[1]>>
             ELSE <<lastX, lastRange[2]>>

\* a plausible slip: the last search is given halfWidth / 2 like the first
SearchArgsSameRun(img, m) ==
    LET height == img.h
        width == img.w
        halfHeight == TruncDiv(height, 2)
        halfWidth == TruncDiv(width, 2)
        deltaY == Max(1, TruncDiv(height, MAX_MODULES * 8))
        deltaX == Max(1, TruncDiv(width, MAX_MODULES * 8))
    IN  [centerX |-> halfWidth, centerY |-> halfHeight,
         deltaX |-> CASE m.pc = "B" -> -deltaX [] m.pc = "C" -> deltaX [] OTHER -> 0,
         deltaY |-> CASE m.pc = "D" -> deltaY [] m.pc \in {"A", "A2"} -> -deltaY
                      [] OTHER -> 0,
         maxWhiteRun |-> CASE m.pc \in {"A", "D"} -> TruncDiv(halfWidth, 2)
                           [] m.pc \in {"B", "C"} -> TruncDiv(halfHeight, 2)
                           [] OTHER -> TruncDiv(halfWidth, 2)]

\* the arguments detect() passes to its five findCornerFromCenter calls (lines 53-124)
SearchArgs(img, m) ==
    LET height == img.h
        width == img.w
        halfHeight == TruncDiv(height, 2)
        halfWidth == TruncDiv(width, 2)
        deltaY == Max(1, TruncDiv(height, MAX_MODULES * 8))
        deltaX == Max(1, TruncDiv(width, MAX_MODULES * 8))
    IN  [centerX |-> halfWidth, centerY |-> halfHeight,
         deltaX |-> CASE m.pc = "B" -> -deltaX [] m.pc = "C" -> deltaX [] OTHER -> 0,
         deltaY |-> CASE m.pc = "D" -> deltaY [] m.pc \in {"A", "A2"} -> -deltaY
                      [] OTHER -> 0,
         maxWhiteRun |-> CASE m.pc \in {"A", "D"} -> TruncDiv(halfWidth, 2)
                           [] m.pc \in {"B", "C"} -> TruncDiv(halfHeight, 2)
                           [] OTHER -> TruncDiv(halfWidth, 4)]

\* findCornerFromCenter, lines 159-161: the locals when a search begins at the centre
BeginSearch(img, m) ==
    [m EXCEPT !.x = TruncDiv(img.w, 2), !.y = TruncDiv(img.h, 2), !.lastRange = None]

\* the locals of the legacy detect() before and between calls
IdleMono ==
    [pc |-> "idle", top |-> 0, bottom |-> 0, left |-> 0, right |-> 0,
     pointA |-> None, pointB |-> None, pointC |-> None, pointD |-> None,
     x |-> 0, y |-> 0, lastRange |-> None]

\* detect(), lines 53-64: the locals when the first search begins
StartMono(img) ==
    BeginSearch(img,
        [IdleMono EXCEPT !.pc = "A", !.top = 0, !.bottom = img.h,
                         !.left = 0, !.right = img.w])

\* detect() after a search returned point p: the bound it tightens and the next search
AfterSearch(img, m, p) ==
    LET restart == BeginSearch(img, m)
    IN  CASE m.pc = "A" -> [restart EXCEPT !.pointA = p, !.top = p[2] - 1, !.pc = "B"]
          [] m.pc = "B" -> [restart EXCEPT !.pointB = p, !.left = p[1] - 1, !.pc = "C"]
          [] m.pc = "C" -> [restart EXCEPT !.pointC = p, !.right = p[1] + 1, !.pc = "D"]
          [] m.pc = "D" -> [restart EXCEPT !.pointD = p, !.bottom = p[2] + 1, !.pc = "A2"]
          [] m.pc = "A2" -> [restart EXCEPT !.pointA = p, !.pc = "return"]

\* the scan line of the running search is inside its search bounds (line 162)
InSearchBounds(m) ==
    m.y < m.bottom /\ m.y >= m.top /\ m.x < m.right /\ m.x >= m.left

\* the range findCornerFromCenter computes on the current scan line (lines 164-170)
RangeHere(img, m) ==
    LET a == SearchArgs(img, m)
    IN  IF a.deltaX = 0
        THEN blackWhiteRange(img, m.y, a.maxWhiteRun, m.left, m.right, TRUE)
        ELSE blackWhiteRange(img, m.x, a.maxWhiteRun, m.top, m.bottom, FALSE)

(***************************************************************************)
(* Actions of MonochromeRectangleDetector                                  *)
(***************************************************************************)
MonoReturn(r) ==
    /\ results' = [results EXCEPT ![1] = Append(@, r)]
    /\ mono' = IdleMono

MonoConstruct ==
    /\ det.kind = "none"
    /\ det' = [kind |-> "mono"]
    /\ UNCHANGED <<oned, image, calls, mono, results>>

MonoStart ==
    /\ det.kind = "mono"
    /\ mono.pc = "idle"
    /\ Len(results[1]) < MaxCalls
    /\ mono' = StartMono(image)
    /\ UNCHANGED <<oned, image, det, calls, results>>

\* a plausible slip: lastRange is unwrapped without the test of line 172
MonoSearchUnchecked ==
    /\ mono.pc \in {"A", "B", "C", "D", "A2"}
    /\ LET a == SearchArgs(image, mono)
           range == RangeHere(image, mono)
       IN  IF ~InSearchBounds(mono)
           THEN MonoReturn(NotFound)
           ELSE IF range = None
           THEN IF mono.lastRange = None
                THEN MonoReturn(Panic)
                ELSE /\ mono' = AfterSearch(image, mono,
                                   CornerOf(mono.lastRange, mono.x, mono.y,
                                            a.centerX, a.deltaX, a.centerY, a.deltaY))
                     /\ UNCHANGED results
           ELSE /\ mono' = [mono EXCEPT !.lastRange = range,
                                        !.y = @ + a.deltaY, !.x = @ + a.deltaX]
                /\ UNCHANGED results
    /\ UNCHANGED <<oned, image, det, calls>>

\* one iteration of the loop of findCornerFromCenter (lines 162-208), with what
\* detect() does when the search returns
MonoSearch ==
    /\ mono.pc \in {"A", "B", "C", "D", "A2"}
    /\ LET a == SearchArgs(image, mono)
           range == RangeHere(image, mono)
       IN  IF ~InSearchBounds(mono)
           THEN MonoReturn(NotFound)
           ELSE IF range = None
           THEN IF mono.lastRange = None
                THEN MonoReturn(NotFound)
                ELSE /\ mono' = AfterSearch(image, mono,
                                   CornerOf(mono.lastRange, mono.x, mono.y,
                                            a.centerX, a.deltaX, a.centerY, a.deltaY))
                     /\ UNCHANGED results
           ELSE /\ mono' = [mono EXCEPT !.lastRange = range,
                                        !.y = @ + a.deltaY, !.x = @ + a.deltaX]
                /\ UNCHANGED results
    /\ UNCHANGED <<oned, image, det, calls>>

\* detect(), line 126
MonoFinish ==
    /\ mono.pc = "return"
    /\ MonoReturn(Found(<<mono.pointA, mono.pointB, mono.pointC, mono.pointD>>))
    /\ UNCHANGED <<oned, image, det, calls>>

MonoStep ==
    \/ MonoStart
    \/ MonoSearch
    \/ MonoFinish

(***************************************************************************)
(* MultiFormatOneDReader                                                   *)
(***************************************************************************)
\* bitmaps handed to decode_with_hints have sides 2..MaxBitmapSide
MaxBitmapSide == 3

\* doDecode reports at most MaxPoints result points
MaxPoints == 2

\* the formats a POSSIBLE_FORMATS hint may name; EAN_13 has no reader here
BarcodeFormats == {"CODE_39", "CODE_93", "CODE_128", "ITF", "CODABAR", "EAN_13"}

ReaderNames ==
    {"Code39Reader", "Code93Reader", "Code128Reader", "ITFReader", "CodaBarReader"}

\* the dictionaries given to new(): POSSIBLE_FORMATS absent or a collection of
\* formats, ASSUME_CODE_39_CHECK_DIGIT present or not
HintDictionaries ==
    { h \in [hasPossibleFormats : BOOLEAN, possibleFormats : SUBSET BarcodeFormats,
             assumeCode39CheckDigit : BOOLEAN] :
        ~h.hasPossibleFormats => h.possibleFormats = {} }

NoHints ==
    [hasPossibleFormats |-> FALSE, possibleFormats |-> {}, assumeCode39CheckDigit |-> FALSE]

\* a reader of the list: its type and, for Code39Reader, its check digit option
OneDReader(name, useCheckDigit) == [name |-> name, usingCheckDigit |-> useCheckDigit]

\* readers.push(r) under a condition
PushIf(cond, readers, r) == IF cond THEN Append(readers, r) ELSE readers

\* the readers pushed for the hinted formats
HintedReaders(hints) ==
    IF ~hints.hasPossibleFormats
    THEN <<>>
    ELSE LET possibleFormats == hints.possibleFormats
             r1 == PushIf("CODE_39" \in possibleFormats, <<>>,
                          OneDReader("Code39Reader", hints.assumeCode39CheckDigit))
             r2 == PushIf("CODE_93" \in possibleFormats, r1,
                          OneDReader("Code93Reader", FALSE))
             r3 == PushIf("CODE_128" \in possibleFormats, r2,
                          OneDReader("Code128Reader", FALSE))
             r4 == PushIf("ITF" \in possibleFormats, r3, OneDReader("ITFReader", FALSE))
         IN  PushIf("CODABAR" \in possibleFormats, r4, OneDReader("CodaBarReader", FALSE))

DefaultReaders ==
    << OneDReader("Code39Reader", FALSE), OneDReader("CodaBarReader", FALSE),
       OneDReader("Code93Reader", FALSE), OneDReader("Code128Reader", FALSE),
       OneDReader("ITFReader", FALSE) >>

\* MultiFormatOneDReader::new: the reader list
MultiFormatOneDReaderNew(hints) ==
    LET readers == HintedReaders(hints)
    IN  IF readers = <<>> THEN DefaultReaders ELSE readers

\* the rows decodeRow may be given: which reader types decode the row
Rows == [ReaderNames -> BOOLEAN]

NoRow == [n \in ReaderNames |-> FALSE]

\* the result a reader of the list returns for a row it decodes
Decoded(name) == [ok |-> TRUE, by |-> name]

\* no operation has returned yet
NoResult == [ok |-> FALSE, err |-> "none"]

\* BinaryBitmap: its size and whether its source can rotate
Bitmaps ==
    [width : 2..MaxBitmapSide, height : 2..MaxBitmapSide, rotateSupported : BOOLEAN]

NoBitmap == [width |-> 0, height |-> 0, rotateSupported |-> FALSE]

rotateCounterClockwise(b) ==
    [width |-> b.height, height |-> b.width, rotateSupported |-> b.rotateSupported]

\* the sequences of at most n elements of S
RECURSIVE SeqsUpTo(_, _)
SeqsUpTo(S, n) ==
    IF n = 0
    THEN { <<>> }
    ELSE LET shorter == SeqsUpTo(S, n - 1)
         IN  shorter \cup { Append(s, e) : s \in shorter, e \in S }

\* the outcomes of OneDReader::doDecode on a bitmap: an error, or a result with
\* result points inside the bitmap and, when the row was read reversed, an
\* ORIENTATION of 180
doDecode(b) ==
    {NotFound} \cup
    { [ok |-> TRUE, hasOrientation |-> o[1], orientation |-> o[2], points |-> pts] :
        o \in { <<FALSE, 0>>, <<TRUE, 0>>, <<TRUE, 180>> },
        pts \in SeqsUpTo({ <<0, 0>>, <<b.width - 1, b.height - 1>> }, MaxPoints) }

\* a plausible slip: the orientation is not reduced modulo 360
RecordRotationNoWrap(result, height) ==
    [ok |-> TRUE, hasOrientation |-> TRUE,
     orientation |-> IF result.hasOrientation THEN 270 + result.orientation ELSE 270,
     points |-> [i \in DOMAIN result.points |->
                    <<height - result.points[i][2] - 1, result.points[i][1]>>]]

\* decode_with_hints, after the rotated doDecode succeeded: the orientation and
\* the result points are rewritten
RecordRotation(result, height) ==
    [ok |-> TRUE, hasOrientation |-> TRUE,
     orientation |-> IF result.hasOrientation
                     THEN (270 + result.orientation) % 360
                     ELSE 270,
     points |-> [i \in DOMAIN result.points |->
                    <<height - result.points[i][2] - 1, result.points[i][1]>>]]

\* the reader before new()
IdleOneD ==
    [pc |-> "unbuilt", hints |-> NoHints, readers |-> <<>>, op |-> "none",
     row |-> NoRow, index |-> 1, called |-> <<>>,
     bitmap |-> NoBitmap, tryHarder |-> FALSE, attempts |-> <<>>,
     first |-> NoResult, second |-> NoResult, out |-> NoResult]

\* the locals of the previous operation are dropped when one begins
BeginOp(o, op) ==
    [o EXCEPT !.op = op, !.row = NoRow, !.index = 1, !.called = <<>>,
              !.bitmap = NoBitmap, !.tryHarder = FALSE, !.attempts = <<>>,
              !.first = NoResult, !.second = NoResult, !.out = NoResult]

ReaderNew ==
    /\ oned.pc = "unbuilt"
    /\ \E hints \in HintDictionaries :
          oned' = [oned EXCEPT !.pc = "idle", !.hints = hints,
                               !.readers = MultiFormatOneDReaderNew(hints)]
    /\ UNCHANGED <<image, det, calls, mono, results>>

DecodeRowStart ==
    /\ oned.pc = "idle"
    /\ \E row \in Rows :
          oned' = [BeginOp(oned, "decodeRow") EXCEPT !.pc = "row", !.row = row]
    /\ UNCHANGED <<image, det, calls, mono, results>>

\* a plausible slip: a reader that decodes the row does not end the loop
DecodeRowCallNoReturn ==
    /\ oned.pc = "row"
    /\ oned.index <= Len(oned.readers)
    /\ LET reader == oned.readers[oned.index]
       IN  oned' = [oned EXCEPT !.called = Append(@, reader.name),
                                !.index = @ + 1,
                                !.out = IF oned.row[reader.name]
                                        THEN Decoded(reader.name) ELSE @]
    /\ UNCHANGED <<image, det, calls, mono, results>>

\* one iteration of the loop of decodeRow
DecodeRowCall ==
    /\ oned.pc = "row"
    /\ oned.index <= Len(oned.readers)
    /\ LET reader == oned.readers[oned.index]
       IN  IF oned.row[reader.name]
           THEN oned' = [oned EXCEPT !.called = Append(@, reader.name),
                                     !.pc = "idle", !.out = Decoded(reader.name)]
           ELSE oned' = [oned EXCEPT !.called = Append(@, reader.name),
                                     !.index = @ + 1]
    /\ UNCHANGED <<image, det, calls, mono, results>>

\* decodeRow after the loop
DecodeRowExhausted ==
    /\ oned.pc = "row"
    /\ oned.index > Len(oned.readers)
    /\ oned' = [oned EXCEPT !.pc = "idle", !.out = NotFound]
    /\ UNCHANGED <<image, det, calls, mono, results>>

DecodeStart ==
    /\ oned.pc = "idle"
    /\ \E b \in Bitmaps, tryHarder \in BOOLEAN :
          oned' = [BeginOp(oned, "decode") EXCEPT !.pc = "first", !.bitmap = b,
                                                  !.tryHarder = tryHarder]
    /\ UNCHANGED <<image, det, calls, mono, results>>

\* decode_with_hints up to the rotation of the image
DecodeFirst ==
    /\ oned.pc = "first"
    /\ \E r \in doDecode(oned.bitmap) :
          LET o == [oned EXCEPT !.attempts = Append(@, oned.bitmap), !.first = r]
          IN  IF r.ok
              THEN oned' = [o EXCEPT !.pc = "idle", !.out = r]
              ELSE IF oned.tryHarder /\ oned.bitmap.rotateSupported
                   THEN oned' = [o EXCEPT !.pc = "rotated"]
                   ELSE oned' = [o EXCEPT !.pc = "idle", !.out = NotFound]
    /\ UNCHANGED <<image, det, calls, mono, results>>

\* decode_with_hints from the rotation of the image on
DecodeRotated ==
    /\ oned.pc = "rotated"
    /\ LET rotatedImage == rotateCounterClockwise(oned.bitmap)
       IN  \E r \in doDecode(rotatedImage) :
              oned' = [oned EXCEPT !.attempts = Append(@, rotatedImage),
                                   !.second = r,
                                   !.pc = "idle",
                                   !.out = IF r.ok
                                           THEN RecordRotation(r, rotatedImage.height)
                                           ELSE r]
    /\ UNCHANGED <<image, det, calls, mono, results>>

(***************************************************************************)
(* The detectors on one thread                                             *)
(***************************************************************************)
Init ==
    /\ image \in Images
    /\ det = [kind |-> "none"]
    /\ calls = [th \in Threads |-> IdleCall]
    /\ mono = IdleMono
    /\ results = [th \in Threads |-> <<>>]
    /\ oned = IdleOneD

Next ==
    \/ Construct
    \/ ConstructFromImage
    \/ MonoConstruct
    \/ WhiteStep(1)
    \/ MonoStep

Spec == Init /\ [][Next]_vars

(***************************************************************************)
(* The detectors on one thread that keeps running: a call that has a next  *)
(* step takes it                                                           *)
(***************************************************************************)
\* the images of the fair specification: the smallest squares of each family, their
\* boxes and lines centred
FairImages ==
    { img \in EdgeImages \cup LineImages :
        /\ img.w = MinSide /\ img.h = MinSide
        /\ img.x0 + img.x1 = img.w - 1 /\ img.y0 + img.y1 = img.h - 1 }
    \cup { img \in BlankImages \cup CornerImages \cup RingImages :
             img.w = MinSide /\ img.h = MinSide }

InitFair ==
    /\ image \in FairImages
    /\ det = [kind |-> "none"]
    /\ calls = [th \in Threads |-> IdleCall]
    /\ mono = IdleMono
    /\ results = [th \in Threads |-> <<>>]
    /\ oned = IdleOneD

SpecFair == InitFair /\ [][Next]_vars /\ WF_vars(WhiteStep(1)) /\ WF_vars(MonoStep)

(***************************************************************************)
(* Two threads calling detect() on one WhiteRectangleDetector: thread 1    *)
(* first completes a call alone, then both threads run concurrently.       *)
(***************************************************************************)
ConstructCentered ==
    /\ det.kind = "none"
    /\ det' = NewResult(image, MaxInitSize, TruncDiv(image.w, 2), TruncDiv(image.h, 2))
    /\ UNCHANGED <<oned, image, calls, mono, results>>

ConcStart(th) ==
    /\ th = 2 => (Len(results[1]) >= 1 /\ Len(results[2]) < 1)
    /\ Start(th)

InitConc ==
    /\ image \in SquareImages
    /\ det = [kind |-> "none"]
    /\ calls = [th \in Threads |-> IdleCall]
    /\ mono = IdleMono
    /\ results = [th \in Threads |-> <<>>]
    /\ oned = IdleOneD

NextConc ==
    \/ ConstructFromImage
    \/ ConstructCentered
    \/ \E th \in Threads :
          \/ ConcStart(th)
          \/ Outer(th)
          \/ Right(th)
          \/ Bottom(th)
          \/ Left(th)
          \/ Top(th)
          \/ After(th)
          \/ ScanZ(th)
          \/ ScanT(th)
          \/ ScanX(th)
          \/ ScanY(th)

SpecConc == InitConc /\ [][NextConc]_vars

(***************************************************************************)
(* The reader alone: new(), then calls of decodeRow and decode_with_hints   *)
(***************************************************************************)
InitReader ==
    /\ image = Scenario
    /\ det = [kind |-> "none"]
    /\ calls = [th \in Threads |-> IdleCall]
    /\ mono = IdleMono
    /\ results = [th \in Threads |-> <<>>]
    /\ oned = IdleOneD

NextReader ==
    \/ ReaderNew
    \/ DecodeRowStart
    \/ DecodeRowCall
    \/ DecodeRowExhausted
    \/ DecodeStart
    \/ DecodeFirst
    \/ DecodeRotated

SpecReader == InitReader /\ [][NextReader]_vars

(***************************************************************************)
(* Vocabulary of the properties                                            *)
(***************************************************************************)
\* the results detect() has returned on thread th
Returned(th) == { results[th][k] : k \in 1..Len(results[th]) }

\* the detector was built, or refused, by WhiteRectangleDetector::new
Built == det.kind \in {"white", "error"}

\* the detector was built with the arguments new_from_image passes
AutoCentered ==
    /\ Built
    /\ det.initSize = INIT_SIZE
    /\ det.x = TruncDiv(image.w, 2)
    /\ det.y = TruncDiv(image.h, 2)

SetMax(S) == CHOOSE m \in S : \A n \in S : n <= m

XsOf(r) == { r.pts[k][1] : k \in 1..4 }

YsOf(r) == { r.pts[k][2] : k \in 1..4 }

\* one filled axis-aligned rectangle with at least one background pixel around it
RectWithMargin(img) ==
    /\ img.kind = "rect"
    /\ img.x0 >= 1 /\ img.y0 >= 1 /\ img.x1 <= img.w - 2 /\ img.y1 <= img.h - 2

\* the bounding box of the points of r is within 2 pixels of the rectangle of img
BoxWithin2(r, img) ==
    /\ Abs(SetMin(XsOf(r)) - img.x0) <= 2
    /\ Abs(SetMax(XsOf(r)) - img.x1) <= 2
    /\ Abs(SetMin(YsOf(r)) - img.y0) <= 2
    /\ Abs(SetMax(YsOf(r)) - img.y1) <= 2

\* the rectangle of img reaches or covers each border of the initial window of d
CoversInitialWindow(img, d) ==
    /\ img.x0 <= d.leftInit /\ img.x1 >= d.rightInit
    /\ img.y0 <= d.upInit /\ img.y1 >= d.downInit

\* no pixel of the image is foreground (Shape holds only inside the bounding box)
AllBackground(img) ==
    \A x \in img.x0..img.x1, y \in img.y0..img.y1 : ~Get(img, x, y)

\* both ends of the initial window, on both axes, are pixels of the image
WindowInside(img, initSize, x, y) ==
    LET halfsize == TruncDiv(initSize, 2)
    IN  /\ InImage(img, x - halfsize, y - halfsize)
        /\ InImage(img, x + halfsize, y + halfsize)

\* a detect() call of the border-growth detector is running on thread th
Running(th) == calls[th].pc # "idle"

InPhase2(th) == calls[th].pc \in {"z", "t", "x", "y"}

\* the foreground of img is not empty and lies in one column or in one row
\* (Shape holds only inside the bounding box)
OnePixelWide(img) ==
    LET fg(x, y) == InBox(img, x, y) /\ Get(img, x, y)
        xs == img.x0..img.x1
        ys == img.y0..img.y1
    IN  /\ \E x \in xs, y \in ys : fg(x, y)
        /\ \/ \A x1, x2 \in xs : x1 # x2 =>
                  ~((\E y \in ys : fg(x1, y)) /\ (\E y \in ys : fg(x2, y)))
           \/ \A y1, y2 \in ys : y1 # y2 =>
                  ~((\E x \in xs : fg(x, y1)) /\ (\E x \in xs : fg(x, y2)))

\* some pixel of column x, rows a..b, is foreground
ColumnHasForeground(img, x, a, b) == \E y \in a..b : Get(img, x, y)

\* some pixel of row y, columns a..b, is foreground
RowHasForeground(img, y, a, b) == \E x \in a..b : Get(img, x, y)

\* the bounds of the window of a call
Window(c) == <<c.left, c.right, c.up, c.down>>

\* what one step from locals c to locals d of the border loop at pc "here" may do:
\* an iteration moves the border by one (moved = 1) when its line has foreground
\* (fg) or the border has not seen foreground yet (~seen), else by nothing, and
\* the loop is left for the next border only with seen set and the line background
GrowthRule(c, d, here, seen, fg, moved) ==
    /\ (c.pc = here /\ d.pc = here /\ d # c) => moved = (IF fg \/ ~seen THEN 1 ELSE 0)
    /\ (c.pc = here /\ d.pc \notin {here, "after", "idle"}) =>
          (seen /\ ~fg /\ moved = 0)

(***************************************************************************)
(* C1                                                                      *)
(***************************************************************************)
\* C1 (as stated): on the 20x20 image with the 10x10 square on rows and columns
\* 5..14, new_from_image succeeds and detect() returns four points with all
\* coordinates in [4, 16].
C1_Original ==
    (image = Scenario /\ AutoCentered) =>
        /\ det.kind = "white"
        /\ \A r \in Returned(1) : r.ok /\ (XsOf(r) \cup YsOf(r)) \subseteq 4..16

\* C1 (amended): on that image new_from_image succeeds and detect() returns
\* NotFoundException; on the 20x20 image with the 12x12 square on rows and
\* columns 4..15 detect() returns four points with all coordinates in [4, 16].
C1_ScenarioNotFound ==
    /\ (image = Scenario /\ AutoCentered) =>
          (det.kind = "white" /\ \A r \in Returned(1) : r = NotFound)
    /\ (image = ScenarioWide /\ AutoCentered) =>
          /\ det.kind = "white"
          /\ \A r \in Returned(1) : r.ok /\ (XsOf(r) \cup YsOf(r)) \subseteq 4..16

C1_Witness ==
    image = Scenario /\ AutoCentered /\ det.kind = "white" /\ Len(results[1]) >= 1

(***************************************************************************)
(* C2                                                                      *)
(***************************************************************************)
\* C2 (as stated): for one filled rectangle with a margin, in an image the default
\* initial window fits in, the auto-centered detector returns Ok and the bounding
\* box of the four points is within 2 pixels of the rectangle.
C2_Original ==
    (RectWithMargin(image) /\ AutoCentered /\ det.kind = "white") =>
        \A r \in Returned(1) : r.ok /\ BoxWithin2(r, image)

\* C2 (amended): the same, provided the rectangle reaches or covers every border
\* of the initial window.
C2_CoveringRectangle ==
    (/\ RectWithMargin(image) /\ AutoCentered /\ det.kind = "white"
     /\ CoversInitialWindow(image, det)) =>
        \A r \in Returned(1) : r.ok /\ BoxWithin2(r, image)

C2_Witness ==
    /\ RectWithMargin(image) /\ AutoCentered /\ det.kind = "white"
    /\ CoversInitialWindow(image, det)
    /\ image.w < 20
    /\ Len(results[1]) >= 1

(***************************************************************************)
(* C3                                                                      *)
(***************************************************************************)
\* C3: on an image without foreground the legacy detect() returns
\* NotFoundException, and the border-growth detector fails with
\* NotFoundException at construction or in detect(); no quadrilateral is returned.
C3_BlankNotFound ==
    AllBackground(image) =>
        /\ det.kind = "error" => det.err = "NotFoundException"
        /\ \A r \in Returned(1) : r = NotFound

C3_Witness ==
    AllBackground(image) /\ det.kind = "mono" /\ Len(results[1]) >= 1

(***************************************************************************)
(* C4                                                                      *)
(***************************************************************************)
\* C4: whenever the border-growth detect() returns Ok, the points p0..p3 satisfy
\* p0.y <= p1.y, p0.y <= p2.y, p1.y <= p3.y, p2.y <= p3.y and p1.x <= p2.x.
C4_Original ==
    det.kind = "white" =>
        \A r \in Returned(1) : r.ok =>
            /\ r.pts[1][2] <= r.pts[2][2]
            /\ r.pts[1][2] <= r.pts[3][2]
            /\ r.pts[2][2] <= r.pts[4][2]
            /\ r.pts[3][2] <= r.pts[4][2]
            /\ r.pts[2][1] <= r.pts[3][1]

(***************************************************************************)
(* C5                                                                      *)
(***************************************************************************)
\* C5 (as stated): for all initSize, x, y, when an end of the initial window is
\* outside the image, new returns NotFoundException, so that no detector exists
\* whose initial bounds are outside the image.
C5_Original ==
    (Built /\ ~WindowInside(image, det.initSize, det.x, det.y)) => det.kind = "error"

\* C5 (amended): the same for initSize >= 0.
C5_NonNegativeSize ==
    (Built /\ det.initSize >= 0 /\ ~WindowInside(image, det.initSize, det.x, det.y)) =>
        det.kind = "error"

C5_Witness ==
    /\ det.kind = "error" /\ det.initSize >= 0
    /\ ~WindowInside(image, det.initSize, det.x, det.y)
    /\ det.x + TruncDiv(det.initSize, 2) >= image.w

(***************************************************************************)
(* C6                                                                      *)
(***************************************************************************)
\* C6: whenever the legacy detect() returns Ok([A, B, C, D]), A has the smallest
\* y of the four points, D the largest, and B.x <= C.x.
C6_Original ==
    det.kind = "mono" =>
        \A r \in Returned(1) : r.ok =>
            /\ r.pts[1][2] = SetMin(YsOf(r))
            /\ r.pts[4][2] = SetMax(YsOf(r))
            /\ r.pts[2][1] <= r.pts[3][1]

(***************************************************************************)
(* C7                                                                      *)
(***************************************************************************)
\* C7: successive detect() calls on one instance over an unchanged image return
\* identical results, for either detector.
C7_Deterministic ==
    \A j, k \in 1..Len(results[1]) : results[1][j] = results[1][k]

C7_Witness ==
    det.kind = "white" /\ Len(results[1]) >= 2 /\ results[1][1].ok

(***************************************************************************)
(* C8                                                                      *)
(***************************************************************************)
\* C8: detect() calls interleaved step by step on one shared image and instance
\* each return what the call that ran alone returned.
C8_InterleavingIndependent ==
    \A th \in Threads : \A r \in Returned(th) : r = results[1][1]

C8_Witness ==
    /\ Len(results[2]) >= 1 /\ results[2][1].ok
    /\ InPhase2(1)

(***************************************************************************)
(* C9                                                                      *)
(***************************************************************************)
\* C9: no step of detect(), of either detector, changes the image or a stored
\* field of the detector; only the locals of the call and its result change.
C9_FrameOfDetect ==
    [][det.kind # "none" => (image' = image /\ det' = det)]_vars

C9_Witness ==
    /\ det.kind = "white" /\ Len(results[1]) >= 2
    /\ results[1][1].ok
    /\ det = NewResult(image, det.initSize, det.x, det.y)

(***************************************************************************)
(* C10                                                                     *)
(***************************************************************************)
\* C10 (as stated): in every state of a border-growth detect() call
\* 0 <= left, right < width and 0 <= up, down < height.
C10_Original ==
    \A th \in Threads : Running(th) =>
        /\ 0 <= calls[th].left /\ calls[th].left < det.width
        /\ 0 <= calls[th].right /\ calls[th].right < det.width
        /\ 0 <= calls[th].up /\ calls[th].up < det.height
        /\ 0 <= calls[th].down /\ calls[th].down < det.height

\* C10 (amended): for a detector built with initSize >= 0, in every state of a
\* detect() call -1 <= left <= right <= width and -1 <= up <= down <= height, and
\* in every state of Phase 2 the four bounds are pixels of the image.
C10_BoundsWithinOne ==
    \A th \in Threads : (Running(th) /\ det.initSize >= 0) =>
        /\ -1 <= calls[th].left /\ calls[th].left <= calls[th].right
        /\ calls[th].right <= det.width
        /\ -1 <= calls[th].up /\ calls[th].up <= calls[th].down
        /\ calls[th].down <= det.height
        /\ InPhase2(th) =>
              /\ InImage(image, calls[th].left, calls[th].up)
              /\ InImage(image, calls[th].right, calls[th].down)

C10_Witness ==
    /\ Running(1) /\ det.initSize >= 0
    /\ calls[1].down = det.height
    /\ calls[1].pc = "bottom"

(***************************************************************************)
(* C11                                                                     *)
(***************************************************************************)
\* C11: when the foreground of the image lies in one column or in one row, every
\* detect() of the auto-centered detector returns NotFoundException, and it does so
\* out of Phase 1: sizeExceeded is set when the border loops end and no corner
\* scan is ever started.
C11_LineNotFound ==
    (AutoCentered /\ det.kind = "white" /\ OnePixelWide(image)) =>
        /\ \A r \in Returned(1) : r = NotFound
        /\ ~InPhase2(1)
        /\ calls[1].pc = "after" => calls[1].sizeExceeded

C11_Witness ==
    /\ AutoCentered /\ det.kind = "white" /\ OnePixelWide(image)
    /\ image.x0 = image.x1 /\ image.y1 > image.y0
    /\ image.x0 >= det.rightInit
    /\ Len(results[1]) >= 1

(***************************************************************************)
(* C12                                                                     *)
(***************************************************************************)
\* C12: in Phase 1 an iteration of a border loop moves its border outward by one
\* pixel when the line of the border has a foreground pixel or the border has never
\* seen one, and a border loop is left without failure only with the border's
\* atLeastOneBlackPointFound flag set, the line of the border all background over
\* the current perpendicular range, and no bound changed by the leaving step.
C12_BorderGrowth ==
    [][\A th \in Threads :
         LET c == calls[th]
             d == calls'[th]
         IN  /\ GrowthRule(c, d, "right", c.atLeastOneBlackPointFoundOnRight,
                            ColumnHasForeground(image, c.right, c.up, c.down),
                            d.right - c.right)
             /\ GrowthRule(c, d, "bottom", c.atLeastOneBlackPointFoundOnBottom,
                            RowHasForeground(image, c.down, c.left, c.right),
                            d.down - c.down)
             /\ GrowthRule(c, d, "left", c.atLeastOneBlackPointFoundOnLeft,
                            ColumnHasForeground(image, c.left, c.up, c.down),
                            c.left - d.left)
             /\ GrowthRule(c, d, "top", c.atLeastOneBlackPointFoundOnTop,
                            RowHasForeground(image, c.up, c.left, c.right),
                            c.up - d.up)
             /\ (c.pc \in {"right", "bottom", "left", "top"} /\ d.pc # c.pc /\ d.pc # "idle")
                   => Window(d) = Window(c)]_vars

C12_Witness ==
    /\ calls[1].pc = "outer" /\ calls[1].aBlackPointFoundOnBorder
    /\ calls[1].atLeastOneBlackPointFoundOnRight /\ calls[1].atLeastOneBlackPointFoundOnBottom
    /\ calls[1].atLeastOneBlackPointFoundOnLeft /\ calls[1].atLeastOneBlackPointFoundOnTop
    /\ calls[1].right > det.rightInit + 1 /\ calls[1].left < det.leftInit - 1
    /\ ~RowHasForeground(image, calls[1].up, calls[1].left, calls[1].right)

(***************************************************************************)
(* C13                                                                     *)
(***************************************************************************)
\* C13: when Phase 1 has ended without failure, the last pass of the outer loop
\* changed no bound, column left and column right have no foreground pixel on rows
\* up..down, and row up and row down have none on columns left..right.
C13_StableWindow ==
    \A th \in Threads :
        LET c == calls[th]
        IN  ((c.pc = "after" /\ ~c.sizeExceeded) \/ InPhase2(th)) =>
                /\ Window(c) = c.passStart
                /\ ~ColumnHasForeground(image, c.left, c.up, c.down)
                /\ ~ColumnHasForeground(image, c.right, c.up, c.down)
                /\ ~RowHasForeground(image, c.up, c.left, c.right)
                /\ ~RowHasForeground(image, c.down, c.left, c.right)

C13_Witness ==
    /\ calls[1].pc = "after" /\ ~calls[1].sizeExceeded
    /\ calls[1].right > det.rightInit + 1 /\ calls[1].up < det.upInit - 1
    /\ image.kind = "diamond"

(***************************************************************************)
(* C14                                                                     *)
(***************************************************************************)
\* a bound of the call on thread th has left the image
EdgeReached(th) ==
    /\ Running(th)
    /\ \/ calls[th].right >= det.width
       \/ calls[th].down >= det.height
       \/ calls[th].left < 0
       \/ calls[th].up < 0

\* C14: once a bound has left the image in Phase 1 (right = width, down = height,
\* left < 0 or up < 0), detect() changes no bound any more, starts no other border
\* loop and no corner scan, and the call ends by returning NotFoundException.
C14_EdgeFails ==
    [][\A th \in Threads :
         (EdgeReached(th) /\ calls'[th] # calls[th]) =>
            /\ calls[th].pc \in {"right", "bottom", "left", "top", "after"}
            /\ IF calls[th].pc = "after"
               THEN /\ calls[th].sizeExceeded
                    /\ results'[th] = Append(results[th], NotFound)
                    /\ calls'[th].pc = "idle"
               ELSE /\ calls'[th].pc = "after"
                    /\ calls'[th].sizeExceeded
                    /\ Window(calls'[th]) = Window(calls[th])]_vars

C14_Witness ==
    /\ Len(results[1]) = 0
    /\ calls[1].pc = "after" /\ calls[1].sizeExceeded
    /\ calls[1].left < 0
    /\ calls[1].atLeastOneBlackPointFoundOnRight /\ calls[1].atLeastOneBlackPointFoundOnBottom
    /\ ~calls[1].atLeastOneBlackPointFoundOnTop

(***************************************************************************)
(* C15                                                                     *)
(***************************************************************************)
\* p is a foreground pixel inside the window of the locals c
HitInWindow(c, p) ==
    /\ Get(image, p[1], p[2])
    /\ c.left <= p[1] /\ p[1] <= c.right
    /\ c.up <= p[2] /\ p[2] <= c.down

\* the corner scans that have yielded a point when the scan at pc is running
ScansDone(pc) ==
    CASE pc = "z" -> {}
      [] pc = "t" -> {"z"}
      [] pc = "x" -> {"z", "t"}
      [] pc = "y" -> {"z", "t", "x"}

\* the locals c are those of a call in Phase 2 that runs the scans in the order
\* z, t, x, y and has only yielded foreground pixels of the window
ScanOrder(c) ==
    /\ \A which \in ScansDone(c.pc) : c[which] # None
    /\ \A which \in {"z", "t", "x", "y"} \ (ScansDone(c.pc) \cup {c.pc}) : c[which] = None
    /\ \A which \in {"z", "t", "x", "y"} : c[which] # None => HitInWindow(c, c[which])

\* C15: Phase 2 runs the corner scans in the order z, t, x, y; every point a scan
\* yields is a foreground pixel inside the window [left, right] x [up, down]; a
\* scan that has found nothing for every i in 1..(right - left) - 1 makes detect()
\* return NotFoundException, with the later scans not run, and detect() returns
\* out of Phase 2 in no other way than that or with the four points found.
C15_ScanOrder ==
    [][\A th \in Threads :
         LET c == calls[th]
             d == calls'[th]
             maxSize == c.right - c.left
         IN  /\ d.pc \in {"z", "t", "x", "y"} => ScanOrder(d)
             /\ (c.pc \in {"z", "t", "x", "y"} /\ d # c) =>
                   /\ (c[c.pc] = None /\ c.i >= maxSize) =>
                         /\ results'[th] = Append(results[th], NotFound)
                         /\ \A i \in 1..(maxSize - 1) :
                               LET s == ScanSegment([c EXCEPT !.i = i], c.pc)
                               IN  getBlackPointOnSegment(image, s[1], s[2], s[3], s[4]) = None
                   /\ d.pc = "idle" =>
                         \/ /\ c[c.pc] = None /\ c.i >= maxSize
                            /\ results'[th] = Append(results[th], NotFound)
                         \/ /\ c.pc = "y" /\ c.y # None
                            /\ results'[th][Len(results'[th])].ok
                   /\ d.pc \notin {"idle", c.pc} =>
                         /\ c[c.pc] # None
                         /\ d.pc = (CASE c.pc = "z" -> "t" [] c.pc = "t" -> "x"
                                       [] c.pc = "x" -> "y" [] OTHER -> "idle")]_vars

C15_Witness ==
    /\ calls[1].pc = "x" /\ calls[1].x = None
    /\ calls[1].i >= calls[1].right - calls[1].left
    /\ calls[1].i > 2
    /\ calls[1].z # None /\ calls[1].t # None

(***************************************************************************)
(* C16                                                                     *)
(***************************************************************************)
\* the step returns Ok out of the last corner scan of thread th
ReturnsFound(th) ==
    /\ calls[th].pc = "y" /\ calls'[th].pc = "idle"
    /\ results'[th][Len(results'[th])].ok

\* the point q is one pixel from p in x and one pixel in y
OneDiagonalStep(p, q) == Abs(q[1] - p[1]) = 1 /\ Abs(q[2] - p[2]) = 1

\* q is farther than p from the centre of the window of c, in x and in y
FartherFromInterior(c, p, q) ==
    /\ Abs(2 * q[1] - (c.left + c.right)) > Abs(2 * p[1] - (c.left + c.right))
    /\ Abs(2 * q[2] - (c.up + c.down)) > Abs(2 * p[2] - (c.up + c.down))

\* pixel p is strictly inside the bounding box of the shape of img
StrictlyInside(img, p) ==
    img.x0 < p[1] /\ p[1] < img.x1 /\ img.y0 < p[2] /\ p[2] < img.y1

\* C16 (as stated): each returned corner is one pixel in x and one in y from the
\* Phase-2 point it was derived from, and farther than it from the interior of the
\* window; for a filled rectangle no returned corner is strictly inside it.
C16_Original ==
    [][\A th \in Threads : ReturnsFound(th) =>
         LET c == calls[th]
             pts == results'[th][Len(results'[th])].pts
             raw == <<c.t, c.z, c.x, c.y>>
         IN  /\ \A k \in 1..4 : OneDiagonalStep(raw[k], pts[k])
             /\ \A k \in 1..4 : FartherFromInterior(c, raw[k], pts[k])
             /\ image.kind = "rect" => \A k \in 1..4 : ~StrictlyInside(image, pts[k])]_vars

\* C16 (amended): each returned corner is one pixel in x and one in y from the
\* Phase-2 point it was derived from; for the auto-centered detector and a filled
\* rectangle with a margin that covers the initial window, the Phase-2 points are
\* the corners of the rectangle and the returned corners are these moved inward:
\* each is strictly inside the rectangle and nearer to the centre of the window.
C16_RecenterInward ==
    [][\A th \in Threads : ReturnsFound(th) =>
         LET c == calls[th]
             pts == results'[th][Len(results'[th])].pts
             raw == <<c.t, c.z, c.x, c.y>>
         IN  /\ \A k \in 1..4 : OneDiagonalStep(raw[k], pts[k])
             /\ (/\ RectWithMargin(image) /\ AutoCentered
                 /\ CoversInitialWindow(image, det)) =>
                   /\ raw = << <<image.x0, image.y0>>, <<image.x0, image.y1>>,
                               <<image.x1, image.y0>>, <<image.x1, image.y1>> >>
                   /\ \A k \in 1..4 :
                         /\ StrictlyInside(image, pts[k])
                         /\ FartherFromInterior(c, pts[k], raw[k])]_vars

C16_Witness ==
    /\ RectWithMargin(image) /\ AutoCentered /\ CoversInitialWindow(image, det)
    /\ Len(results[1]) >= 1 /\ results[1][1].ok
    /\ results[1][1].pts[1] = <<image.x0 + 1, image.y0 + 1>>
    /\ results[1][1].pts[4] = <<image.x1 - 1, image.y1 - 1>>

(***************************************************************************)
(* C17                                                                     *)
(***************************************************************************)
\* the point p moved by (dx, dy)
Moved(p, dx, dy) == <<p[1] + dx, p[2] + dy>>

\* C17: detect() returns the points in the order [t', z', x', y'], with offsets
\* chosen by the x of the bottom-right scan point y alone: y.x < width/2, that is
\* y.x <= (width - 1) div 2, gives t(-1,+1), z(+1,+1), x(-1,-1), y(+1,-1), and
\* y.x >= width/2 gives t(+1,+1), z(+1,-1), x(-1,+1), y(-1,-1).
C17_CenterEdges ==
    [][\A th \in Threads : ReturnsFound(th) =>
         LET c == calls[th]
             pts == results'[th][Len(results'[th])].pts
         IN  IF c.y[1] <= (det.width - 1) \div 2
             THEN pts = << Moved(c.t, -1, 1), Moved(c.z, 1, 1),
                           Moved(c.x, -1, -1), Moved(c.y, 1, -1) >>
             ELSE pts = << Moved(c.t, 1, 1), Moved(c.z, 1, -1),
                           Moved(c.x, -1, 1), Moved(c.y, -1, -1) >>]_vars

C17_Witness ==
    /\ Len(results[1]) >= 1 /\ results[1][1].ok
    /\ calls[1].pc = "y" /\ calls[1].y # None
    /\ det.width % 2 = 1
    /\ 2 * calls[1].y[1] = det.width - 1
    /\ results[1][1].pts[4] = Moved(calls[1].y, 1, -1)

(***************************************************************************)
(* C18                                                                     *)
(***************************************************************************)
\* the search bounds of the legacy locals m
MonoBounds(m) == <<m.top, m.bottom, m.left, m.right>>

\* the five searches, in the order detect() runs them, and where it goes after each
NextSearch(pc) ==
    CASE pc = "A" -> "B" [] pc = "B" -> "C" [] pc = "C" -> "D"
      [] pc = "D" -> "A2" [] pc = "A2" -> "return"

\* the move of one step of each search: up, left, right, down, up
SearchStep(img, pc) ==
    LET stepY == Max(1, img.h \div 256)
        stepX == Max(1, img.w \div 256)
    IN  CASE pc \in {"A", "A2"} -> <<0, -stepY>>
          [] pc = "B" -> <<-stepX, 0>>
          [] pc = "C" -> <<stepX, 0>>
          [] pc = "D" -> <<0, stepY>>

\* C18: the legacy detect() runs five searches from (width/2, height/2), in the
\* order up, left, right, down, up, each moving by max(1, height/256) vertically or
\* max(1, width/256) horizontally; when one of the first four returns its point,
\* exactly one bound is tightened (top = A.y - 1, left = B.x - 1, right = C.x + 1,
\* bottom = D.y + 1); the first upward search tolerates white runs of (width/2)/2
\* and the last one of (width/2)/4, and its point replaces A; a search that fails
\* makes detect() return NotFoundException at once.
C18_FiveSearches ==
    [][mono' # mono =>
        LET m == mono
            n == mono'
            centre == <<image.w \div 2, image.h \div 2>>
            step == SearchStep(image, m.pc)
        IN  /\ m.pc = "idle" =>
                  /\ n.pc = "A" /\ <<n.x, n.y>> = centre
                  /\ MonoBounds(n) = <<0, image.h, 0, image.w>>
            /\ m.pc \in {"A", "B", "C", "D", "A2"} =>
                  \/ /\ n.pc = m.pc
                     /\ <<n.x, n.y>> = <<m.x + step[1], m.y + step[2]>>
                     /\ MonoBounds(n) = MonoBounds(m)
                     /\ m.pc = "A" => n.lastRange =
                           blackWhiteRange(image, m.y, (image.w \div 2) \div 2,
                                           m.left, m.right, TRUE)
                     /\ m.pc = "A2" => n.lastRange =
                           blackWhiteRange(image, m.y, (image.w \div 2) \div 4,
                                           m.left, m.right, TRUE)
                  \/ /\ n.pc = NextSearch(m.pc)
                     /\ <<n.x, n.y>> = centre
                     /\ MonoBounds(n) =
                           (CASE m.pc = "A" -> <<n.pointA[2] - 1, m.bottom, m.left, m.right>>
                              [] m.pc = "B" -> <<m.top, m.bottom, n.pointB[1] - 1, m.right>>
                              [] m.pc = "C" -> <<m.top, m.bottom, m.left, n.pointC[1] + 1>>
                              [] m.pc = "D" -> <<m.top, n.pointD[2] + 1, m.left, m.right>>
                              [] m.pc = "A2" -> MonoBounds(m))
                     /\ m.pc # "A" => n.pointA # None
                     /\ m.pc \in {"B", "C", "D"} => n.pointA = m.pointA
                  \/ /\ n.pc = "idle"
                     /\ results'[1] = Append(results[1], NotFound)
            /\ m.pc = "return" =>
                  /\ n.pc = "idle"
                  /\ results'[1] =
                        Append(results[1], Found(<<m.pointA, m.pointB, m.pointC, m.pointD>>))]_vars

C18_Witness ==
    /\ image = LargeImage
    /\ mono.pc = "A2"
    /\ SearchStep(image, "A2") = <<0, -3>> /\ SearchStep(image, "B") = <<-2, 0>>
    /\ MonoBounds(mono) = <<mono.pointA[2] - 1, mono.pointD[2] + 1,
                             mono.pointB[1] - 1, mono.pointC[1] + 1>>
    /\ mono.top > 0 /\ mono.left > 0 /\ mono.right < image.w /\ mono.bottom < image.h
    /\ <<mono.x, mono.y>> = <<image.w \div 2, image.h \div 2 - 2 * 3>>

(***************************************************************************)
(* C19                                                                     *)
(***************************************************************************)
\* a search of the legacy detect() is running
Searching(m) == m.pc \in {"A", "B", "C", "D", "A2"}

\* the point detect() has stored for the search at pc
PointOf(m, pc) ==
    CASE pc \in {"A", "A2"} -> m.pointA
      [] pc = "B" -> m.pointB
      [] pc = "C" -> m.pointC
      [] pc = "D" -> m.pointD

\* the search whose locals are m is still at the centre, on its first scan line
AtFirstLine(img, m) == <<m.x, m.y>> = <<img.w \div 2, img.h \div 2>> /\ m.lastRange = None

\* C19: a search fails, with NotFoundException, exactly when its first scan line,
\* at the centre, has no valid run, or when it has stepped out of its search bounds
\* after lines that all had a valid run; otherwise it ends, on the first line
\* without a valid run, with a corner on the line one step before, whose run was
\* valid.
C19_SearchOutcome ==
    [][(Searching(mono) /\ mono' # mono) =>
        LET m == mono
            n == mono'
            step == SearchStep(image, m.pc)
            firstLineEmpty ==
                InSearchBounds(m) /\ AtFirstLine(image, m) /\ RangeHere(image, m) = None
            exhausted == ~InSearchBounds(m) /\ m.lastRange # None
            fails == n.pc = "idle" /\ results'[1] = Append(results[1], NotFound)
        IN  /\ fails <=> (firstLineEmpty \/ exhausted)
            /\ ~fails =>
                  \/ /\ n.pc = m.pc /\ n.lastRange = RangeHere(image, m)
                     /\ n.lastRange # None
                  \/ /\ n.pc = NextSearch(m.pc)
                     /\ InSearchBounds(m) /\ RangeHere(image, m) = None
                     /\ m.lastRange # None
                     /\ LET p == PointOf(n, m.pc)
                            lastLine == [m EXCEPT !.x = m.x - step[1], !.y = m.y - step[2]]
                        IN  /\ IF step[1] = 0 THEN p[2] = lastLine.y ELSE p[1] = lastLine.x
                            /\ RangeHere(image, lastLine) = m.lastRange]_vars

C19_Witness ==
    /\ Searching(mono) /\ mono.pc # "A"
    /\ ~InSearchBounds(mono) /\ mono.lastRange # None
    /\ image.w < LargeWidth

(***************************************************************************)
(* C20                                                                     *)
(***************************************************************************)
\* the end of the run <<s, e>> the corner takes, for the centre coordinate
\* "center" on the axis of the run; upOrRight: the search scans up or right
ChosenEnd(run, center, upOrRight) ==
    LET s == run[1]
        e == run[2]
    IN  IF s < center /\ e > center THEN (IF upOrRight THEN e ELSE s)
        ELSE IF s < center THEN s
        ELSE e

\* C20: the corner a search returns is taken from the last valid run [s, e]: e
\* (scanning up or right) or s (scanning down or left) when s < center < e, s when
\* s < center and e <= center, e when s >= center; a vertical search returns
\* (chosen, last line), a horizontal search (last line, chosen).
C20_CornerChoice ==
    [][(Searching(mono) /\ mono'.pc = NextSearch(mono.pc)) =>
        LET m == mono
            p == PointOf(mono', m.pc)
            step == SearchStep(image, m.pc)
        IN  IF m.pc \in {"A", "D", "A2"}
            THEN p = <<ChosenEnd(m.lastRange, image.w \div 2, m.pc # "D"), m.y - step[2]>>
            ELSE p = <<m.x - step[1], ChosenEnd(m.lastRange, image.h \div 2, m.pc = "C")>>]_vars

C20_Witness ==
    /\ mono.pc = "D" /\ mono.pointC # None
    /\ mono.lastRange # None /\ RangeHere(image, mono) = None /\ InSearchBounds(mono)
    /\ mono.lastRange[1] < image.w \div 2 /\ mono.lastRange[2] <= image.w \div 2

(***************************************************************************)
(* C21                                                                     *)
(***************************************************************************)
\* the arguments of the blackWhiteRange call on the current scan line of m
RangeArgs(img, m) ==
    LET a == SearchArgs(img, m)
    IN  IF a.deltaX = 0
        THEN [fixed |-> m.y, maxWhiteRun |-> a.maxWhiteRun, minDim |-> m.left,
              maxDim |-> m.right, horizontal |-> TRUE]
        ELSE [fixed |-> m.x, maxWhiteRun |-> a.maxWhiteRun, minDim |-> m.top,
              maxDim |-> m.bottom, horizontal |-> FALSE]

\* positions a..b of the line of the call r are all background
WhiteRun(img, r, a, b) ==
    \A pos \in a..b : ~LinePixel(img, r.fixed, pos, r.horizontal)

\* C21: every range [start, end] blackWhiteRange returns has
\* minDim <= start < end < maxDim and holds no run of background pixels longer
\* than maxWhiteRun; a line with only background between minDim and maxDim yields
\* None.
C21_Original ==
    (Searching(mono) /\ InSearchBounds(mono)) =>
        LET r == RangeArgs(image, mono)
            range == RangeHere(image, mono)
        IN  /\ range # None =>
                  /\ r.minDim <= range[1] /\ range[1] < range[2] /\ range[2] < r.maxDim
                  /\ \A a \in range[1]..range[2] :
                        a + r.maxWhiteRun <= range[2] =>
                            ~WhiteRun(image, r, a, a + r.maxWhiteRun)
            /\ WhiteRun(image, r, r.minDim, r.maxDim - 1) => range = None

(***************************************************************************)
(* MultiFormatOneDReader: the properties                                   *)
(***************************************************************************)
ReaderFormat ==
    [n \in ReaderNames |->
        CASE n = "Code39Reader" -> "CODE_39"
          [] n = "Code93Reader" -> "CODE_93"
          [] n = "Code128Reader" -> "CODE_128"
          [] n = "ITFReader" -> "ITF"
          [] n = "CodaBarReader" -> "CODABAR"]

NamesOf(readers) == [i \in DOMAIN readers |-> readers[i].name]

Hinted(n) == ReaderFormat[n] \in oned.hints.possibleFormats

\* the reader types the claim expects in the list, in order
ExpectedNames ==
    LET hinted == SelectSeq(<<"Code39Reader", "Code93Reader", "Code128Reader",
                              "ITFReader", "CodaBarReader">>, Hinted)
    IN  IF hinted # <<>>
        THEN hinted
        ELSE <<"Code39Reader", "CodaBarReader", "Code93Reader", "Code128Reader",
               "ITFReader">>

\* the positions of the readers that decode the current row
Decoding == { i \in DOMAIN oned.readers : oned.row[oned.readers[i].name] }

\* C22: the reader list built by new() is never empty and holds the readers of the
\* hinted formats in the order Code39, Code93, Code128, ITF, CodaBar, or the five
\* default readers in the order Code39, CodaBar, Code93, Code128, ITF when no
\* hinted format matched; decodeRow calls the readers in list order, stops at the
\* first one that decodes the row and returns its result, and returns
\* NotFoundException exactly when every reader failed.
C22_FirstSuccess ==
    /\ oned.pc # "unbuilt" =>
          /\ oned.readers # <<>>
          /\ NamesOf(oned.readers) = ExpectedNames
    /\ oned.pc = "row" =>
          /\ oned.called = SubSeq(NamesOf(oned.readers), 1, oned.index - 1)
          /\ \A i \in 1..(oned.index - 1) : i \notin Decoding
    /\ (oned.pc = "idle" /\ oned.op = "decodeRow") =>
          IF Decoding = {}
          THEN /\ oned.out = NotFound
               /\ oned.called = NamesOf(oned.readers)
          ELSE LET first == SetMin(Decoding)
               IN  /\ oned.out = Decoded(oned.readers[first].name)
                   /\ oned.called = SubSeq(NamesOf(oned.readers), 1, first)

\* decodeRow returned the result of the second of three hinted readers although
\* the third decodes the row as well
C22_Witness ==
    /\ oned.pc = "idle" /\ oned.op = "decodeRow"
    /\ oned.hints.hasPossibleFormats
    /\ NamesOf(oned.readers) = <<"Code93Reader", "ITFReader", "CodaBarReader">>
    /\ Decoding = {2, 3}
    /\ oned.out = Decoded("ITFReader")
    /\ oned.called = <<"Code93Reader", "ITFReader">>

\* C23: decode_with_hints returns the result of the first doDecode unchanged when
\* it succeeds; when it fails, doDecode runs a second time, on the image rotated
\* counter-clockwise, only if the TRY_HARDER hint is present and the image supports
\* rotation, and otherwise NotFoundException is returned after the one attempt; a
\* result of the rotated attempt carries ORIENTATION = (270 + the orientation
\* doDecode recorded) mod 360, 270 if it recorded none, and each of its points
\* (x, y) is replaced by (height of the rotated image - y - 1, x).
C23_RotatedRetry ==
    /\ oned.pc = "rotated" =>
          /\ ~oned.first.ok
          /\ oned.tryHarder /\ oned.bitmap.rotateSupported
          /\ oned.attempts = <<oned.bitmap>>
    /\ (oned.pc = "idle" /\ oned.op = "decode") =>
          IF oned.first.ok
          THEN oned.out = oned.first /\ oned.attempts = <<oned.bitmap>>
          ELSE IF ~(oned.tryHarder /\ oned.bitmap.rotateSupported)
          THEN oned.out = NotFound /\ oned.attempts = <<oned.bitmap>>
          ELSE /\ oned.attempts = <<oned.bitmap, rotateCounterClockwise(oned.bitmap)>>
               /\ oned.out.ok = oned.second.ok
               /\ oned.out.ok =>
                     LET rotatedHeight == oned.attempts[2].height
                         before == oned.second
                         after == oned.out
                     IN  /\ after.hasOrientation
                         /\ after.orientation =
                               IF before.hasOrientation
                               THEN (270 + before.orientation) % 360
                               ELSE 270
                         /\ Len(after.points) = Len(before.points)
                         /\ \A i \in 1..Len(before.points) :
                               /\ after.points[i][1] = rotatedHeight - before.points[i][2] - 1
                               /\ after.points[i][2] = before.points[i][1]

\* the rotated attempt of a call on a 3x2 bitmap found a reversed row: the result
\* carries orientation 90 and its second point moved from (1, 2) to (0, 1)
C23_Witness ==
    /\ oned.pc = "idle" /\ oned.op = "decode"
    /\ oned.bitmap.width = 3 /\ oned.bitmap.height = 2
    /\ ~oned.first.ok /\ oned.second.ok
    /\ oned.second.hasOrientation /\ oned.second.orientation = 180
    /\ oned.second.points = << <<0, 0>>, <<1, 2>> >>
    /\ oned.out.orientation = 90
    /\ oned.out.points = << <<2, 0>>, <<0, 1>> >>

(***************************************************************************)
(* WhiteRectangleDetector: probes, initial borders, termination            *)
(***************************************************************************)
\* the pixels the next step of the call with locals c reads: the line of a
\* border-loop iteration, or the segment of a corner-scan attempt
ProbesNow(c) ==
    CASE c.pc = "right" /\ (c.borderNotWhite \/ ~c.atLeastOneBlackPointFoundOnRight)
                        /\ c.right < det.width ->
            ProbesOfLine(c.up, c.down, c.right, FALSE)
      [] c.pc = "bottom" /\ (c.borderNotWhite \/ ~c.atLeastOneBlackPointFoundOnBottom)
                         /\ c.down < det.height ->
            ProbesOfLine(c.left, c.right, c.down, TRUE)
      [] c.pc = "left" /\ (c.borderNotWhite \/ ~c.atLeastOneBlackPointFoundOnLeft)
                       /\ c.left >= 0 ->
            ProbesOfLine(c.up, c.down, c.left, FALSE)
      [] c.pc = "top" /\ (c.borderNotWhite \/ ~c.atLeastOneBlackPointFoundOnTop)
                      /\ c.up >= 0 ->
            ProbesOfLine(c.left, c.right, c.up, TRUE)
      [] c.pc \in {"z", "t", "x", "y"} /\ c[c.pc] = None /\ c.i < c.right - c.left ->
            LET s == ScanSegment(c, c.pc)
            IN  ProbesOfSegment(image, s[1], s[2], s[3], s[4])
      [] OTHER -> {}

\* C24: with a detector that new() accepted for an initSize >= 0, every pixel a
\* detect() call probes, by containsBlackPoint in Phase 1 and by
\* getBlackPointOnSegment in Phase 2, has 0 <= x < width and 0 <= y < height, and
\* no call ends in an index panic.
C24_ProbesInImage ==
    (det.kind = "white" /\ det.initSize >= 0) =>
        \A th \in Threads :
            /\ \A p \in ProbesNow(calls[th]) : InImage(image, p[1], p[2])
            /\ Panic \notin Returned(th)

\* a corner-scan attempt of a detector built with a positive initSize probes a
\* pixel of the image's first row and one of its last column
C24_Witness ==
    /\ det.kind = "white" /\ det.initSize > 0
    /\ InPhase2(1)
    /\ \E p \in ProbesNow(calls[1]) : p[2] = 0
    /\ \E p \in ProbesNow(calls[1]) : p[1] = image.w - 1

\* the foreground pixels of img (Shape holds only inside the bounding box)
Foreground(img) ==
    { p \in (img.x0..img.x1) \X (img.y0..img.y1) : Get(img, p[1], p[2]) }

\* the bounds of the call with locals c are the initial ones or farther out
Outward(c) ==
    /\ c.left <= det.leftInit /\ c.right >= det.rightInit
    /\ c.up <= det.upInit /\ c.down >= det.downInit

\* every foreground pixel lies strictly inside the initial window
ForegroundInsideWindow ==
    \A p \in Foreground(image) :
        /\ det.leftInit < p[1] /\ p[1] < det.rightInit
        /\ det.upInit < p[2] /\ p[2] < det.downInit

\* C25: detect() of the border-growth detector returns Ok only if the image has a
\* foreground pixel with x >= rightInit, one with y >= downInit, one with
\* x <= leftInit and one with y <= upInit, so a call on an image whose foreground
\* lies strictly inside the initial window returns NotFoundException; the bounds
\* of a call that returns Ok are the initial ones or farther out on every side.
C25_InitialBorders ==
    [][\A th \in Threads :
          /\ ReturnsFound(th) =>
                /\ \E p \in Foreground(image) : p[1] >= det.rightInit
                /\ \E p \in Foreground(image) : p[2] >= det.downInit
                /\ \E p \in Foreground(image) : p[1] <= det.leftInit
                /\ \E p \in Foreground(image) : p[2] <= det.upInit
                /\ Outward(calls[th])
          /\ (calls[th].pc # "idle" /\ calls'[th].pc = "idle" /\ ForegroundInsideWindow) =>
                results'[th] = Append(results[th], NotFound)]_vars

\* the last corner scan of a call has found its point, so the call returns Ok; every
\* bound has moved out of the initial window, whose four borders the foreground crosses
C25_Witness ==
    /\ calls[1].pc = "y" /\ calls[1].y # None
    /\ calls[1].left < det.leftInit /\ calls[1].right > det.rightInit
    /\ calls[1].up < det.upInit /\ calls[1].down > det.downInit
    /\ \E p \in Foreground(image) : p[1] >= det.rightInit
    /\ \E p \in Foreground(image) : p[1] <= det.leftInit

\* the guard of the border loop at pc holds for the locals c
LoopGuard(c) ==
    CASE c.pc = "right" -> (c.borderNotWhite \/ ~c.atLeastOneBlackPointFoundOnRight)
                               /\ c.right < det.width
      [] c.pc = "bottom" -> (c.borderNotWhite \/ ~c.atLeastOneBlackPointFoundOnBottom)
                               /\ c.down < det.height
      [] c.pc = "left" -> (c.borderNotWhite \/ ~c.atLeastOneBlackPointFoundOnLeft)
                               /\ c.left >= 0
      [] c.pc = "top" -> (c.borderNotWhite \/ ~c.atLeastOneBlackPointFoundOnTop)
                               /\ c.up >= 0
      [] OTHER -> FALSE

\* from locals c to locals d the bound of the border loop at c.pc has moved one
\* pixel toward the image edge and no other bound has moved
BoundAdvanced(c, d) ==
    CASE c.pc = "right" -> Window(d) = <<c.left, c.right + 1, c.up, c.down>>
      [] c.pc = "bottom" -> Window(d) = <<c.left, c.right, c.up, c.down + 1>>
      [] c.pc = "left" -> Window(d) = <<c.left - 1, c.right, c.up, c.down>>
      [] c.pc = "top" -> Window(d) = <<c.left, c.right, c.up - 1, c.down>>
      [] OTHER -> FALSE

\* the results of the first n calls are Ok or NotFoundException
Answered(n) ==
    /\ Len(results[1]) >= n
    /\ \A k \in 1..n : results[1][k].ok \/ results[1][k] = NotFound

\* C26: both detect() operations terminate. An iteration of a Phase-1 border loop
\* moves its bound one pixel toward the image edge or is the last one of the loop;
\* the outer loop is repeated only after a bound has moved in the pass; a Phase-2
\* scan makes fewer than right - left attempts; a step of a legacy search moves
\* its scan line by a vector with exactly one non-zero component, of magnitude at
\* least 1, in the same direction as long as the search lasts; and a call that
\* has started eventually returns Ok or NotFoundException.
C26_Terminates ==
    /\ [][\A th \in Threads :
             LET c == calls[th]
                 d == calls'[th]
             IN  /\ (c.pc \in {"right", "bottom", "left", "top"} /\ d.pc = c.pc /\ d # c) =>
                       /\ LoopGuard(c)
                       /\ BoundAdvanced(c, d) \/ (Window(d) = Window(c) /\ ~LoopGuard(d))
                 /\ (c.pc = "top" /\ d.pc = "outer" /\ d.aBlackPointFoundOnBorder) =>
                       Window(d) # c.passStart
                 /\ (c.pc \in {"z", "t", "x", "y"} /\ d.pc = c.pc) =>
                       /\ d.i = c.i + 1
                       /\ c.i < c.right - c.left]_vars
    /\ [][(Searching(mono) /\ mono'.pc = mono.pc /\ mono' # mono) =>
             LET a == SearchArgs(image, mono)
             IN  /\ (a.deltaX = 0) # (a.deltaY = 0)
                 /\ Abs(a.deltaX) + Abs(a.deltaY) >= 1
                 /\ <<mono'.x, mono'.y>> = <<mono.x + a.deltaX, mono.y + a.deltaY>>
                 /\ InSearchBounds(mono)]_vars
    /\ \A n \in 0..(MaxCalls - 1) :
          ((Running(1) \/ Searching(mono)) /\ Len(results[1]) = n) ~> Answered(n + 1)

\* the second call of a detector has returned after its first; one of the two
\* detectors saw its outer loop repeated, the other ran all five searches
C26_Witness ==
    /\ Len(results[1]) = 2
    /\ Answered(2)
    /\ ~Running(1) /\ ~Searching(mono)

====
